---- MODULE Spec2Model ----
(***************************************************************************)
(* A model of the CDN simulator's cache replacement policies               *)
(* (src/src/cache/policies.py, src/src/cache/manager.py) and of the        *)
(* request-routing simulation engine (src/src/simulation/engine.py) over   *)
(* a small topology (src/src/network/topology.py).                         *)
(***************************************************************************)
EXTENDS Integers, Sequences, FiniteSets, TLC

\* ------------------------------------------------------------------------
\* Bounds and input domains
\* ------------------------------------------------------------------------
Keys == {"A", "B", "C"}
Values == {50, 100}
Policies == {"LRU", "LFU", "FIFO", "RANDOM", "HYBRID"}
MaxCap == 2
MaxOps == 5
MaxClearOps == 4

\* The "absent" signal returned by get (Python None); stored values are > 0.
None == -1

\* ------------------------------------------------------------------------
\* Python containers
\* ------------------------------------------------------------------------
\* dict: a function whose domain is the set of keys present
EmptyMap == [k \in {} |-> 0]
MapSet(m, k, v) == [x \in (DOMAIN m) \cup {k} |-> IF x = k THEN v ELSE m[x]]
MapDel(m, k) == [x \in (DOMAIN m) \ {k} |-> m[x]]

\* OrderedDict key -> value: a sequence of <<key, value>>, oldest first
OD_keys(od) == {od[i][1] : i \in 1..Len(od)}
OD_index(od, k) == CHOOSE i \in 1..Len(od) : od[i][1] = k
OD_value(od, k) == od[OD_index(od, k)][2]
OD_delete(od, k) == SelectSeq(od, LAMBDA e : e[1] # k)
OD_move_to_end(od, k) == Append(OD_delete(od, k), <<k, OD_value(od, k)>>)
OD_setitem(od, k, v) ==
    IF k \in OD_keys(od)
    THEN [od EXCEPT ![OD_index(od, k)] = <<k, v>>]
    ELSE Append(od, <<k, v>>)
OD_popfirst(od) == Tail(od)

\* OrderedDict used as an ordered key set (values unused): a sequence of keys
KS_keys(ks) == {ks[i] : i \in 1..Len(ks)}
KS_delete(ks, k) == SelectSeq(ks, LAMBDA e : e # k)
KS_add(ks, k) == IF k \in KS_keys(ks) THEN ks ELSE Append(ks, k)

\* defaultdict(OrderedDict): reading a missing key inserts an empty bucket
DD_touch(dd, f) == IF f \in DOMAIN dd THEN dd ELSE MapSet(dd, f, <<>>)

\* ------------------------------------------------------------------------
\* LRUCache (policies.py 25-61)
\* ------------------------------------------------------------------------
LRUCache(cap) ==
    [class |-> "LRUCache", capacity |-> cap, cache |-> <<>>, hits |-> 0, misses |-> 0]

\* faulty variant: a hit that does not move the key to the most-recent end
LRU_get_nomove(c, key) ==
    IF key \notin OD_keys(c.cache)
    THEN [c EXCEPT !.misses = @ + 1]
    ELSE [c EXCEPT !.hits = @ + 1]

LRU_get(c, key) ==
    IF key \notin OD_keys(c.cache)
    THEN [c EXCEPT !.misses = @ + 1]
    ELSE [c EXCEPT !.cache = OD_move_to_end(@, key), !.hits = @ + 1]

LRU_get_ret(c, key) ==
    IF key \notin OD_keys(c.cache) THEN None ELSE OD_value(c.cache, key)

\* popitem(last=False) on an empty OrderedDict raises KeyError
LRU_put_raises(c, key) ==
    /\ key \notin OD_keys(c.cache)
    /\ Len(c.cache) >= c.capacity
    /\ Len(c.cache) = 0

\* faulty variant: a put that never evicts
LRU_put_noevict(c, key, value) ==
    LET od == IF key \in OD_keys(c.cache) THEN OD_move_to_end(c.cache, key) ELSE c.cache
    IN  [c EXCEPT !.cache = OD_setitem(od, key, value)]

LRU_put(c, key, value) ==
    LET od == IF key \in OD_keys(c.cache)
              THEN OD_move_to_end(c.cache, key)
              ELSE IF Len(c.cache) >= c.capacity
                   THEN OD_popfirst(c.cache)
                   ELSE c.cache
    IN  [c EXCEPT !.cache = OD_setitem(od, key, value)]

LRU_contains(c, key) == key \in OD_keys(c.cache)

\* ------------------------------------------------------------------------
\* LFUCache (policies.py 63-131)
\*   cache: key -> [value, freq];  freq: frequency -> ordered key set
\* ------------------------------------------------------------------------
LFUCache(cap) ==
    [class |-> "LFUCache", capacity |-> cap, cache |-> EmptyMap, freq |-> EmptyMap,
     min_freq |-> 0, hits |-> 0, misses |-> 0]

\* lines 77-88 / 99-107: move key from its bucket to the next one, then
\* advance min_freq when the bucket it names is empty
\* faulty variant: a promotion that never advances min_freq
LFU_promote_keeps_min(c, key, value) ==
    LET f  == c.cache[key].freq
        d0 == DD_touch(c.freq, f)
        d1 == [d0 EXCEPT ![f] = KS_delete(@, key)]
        nf == f + 1
        d2 == DD_touch(d1, nf)
        d3 == [d2 EXCEPT ![nf] = KS_add(@, key)]
    IN  [c EXCEPT !.cache = MapSet(@, key, [value |-> value, freq |-> nf]),
                  !.freq = DD_touch(d3, c.min_freq)]

LFU_promote(c, key, value) ==
    LET f  == c.cache[key].freq
        d0 == DD_touch(c.freq, f)
        d1 == [d0 EXCEPT ![f] = KS_delete(@, key)]
        nf == f + 1
        d2 == DD_touch(d1, nf)
        d3 == [d2 EXCEPT ![nf] = KS_add(@, key)]
        d4 == DD_touch(d3, c.min_freq)
    IN  [c EXCEPT !.cache = MapSet(@, key, [value |-> value, freq |-> nf]),
                  !.freq = d4,
                  !.min_freq = IF d4[c.min_freq] = <<>> THEN @ + 1 ELSE @]

\* faulty variant: a miss that is not counted
LFU_get_nomiss(c, key) ==
    IF key \notin DOMAIN c.cache
    THEN c
    ELSE [LFU_promote(c, key, c.cache[key].value) EXCEPT !.hits = @ + 1]

LFU_get(c, key) ==
    IF key \notin DOMAIN c.cache
    THEN [c EXCEPT !.misses = @ + 1]
    ELSE [LFU_promote(c, key, c.cache[key].value) EXCEPT !.hits = @ + 1]

LFU_get_ret(c, key) ==
    IF key \notin DOMAIN c.cache THEN None ELSE c.cache[key].value

\* popitem on an empty min_freq bucket raises KeyError
LFU_put_raises(c, key) ==
    /\ c.capacity # 0
    /\ key \notin DOMAIN c.cache
    /\ Cardinality(DOMAIN c.cache) >= c.capacity
    /\ DD_touch(c.freq, c.min_freq)[c.min_freq] = <<>>

\* faulty variant: popitem() with its default last=True evicts the newest of the bucket
LFU_put_poplast(c, key, value) ==
    IF c.capacity = 0 THEN c
    ELSE IF key \in DOMAIN c.cache THEN LFU_promote(c, key, value)
    ELSE LET full  == Cardinality(DOMAIN c.cache) >= c.capacity
             d0    == IF full THEN DD_touch(c.freq, c.min_freq) ELSE c.freq
             b     == d0[c.min_freq]
             evict == b[Len(b)]
             d1    == IF full THEN [d0 EXCEPT ![c.min_freq] = SubSeq(b, 1, Len(b) - 1)]
                      ELSE d0
             m1    == IF full THEN MapDel(c.cache, evict) ELSE c.cache
             d2    == DD_touch(d1, 1)
         IN  [c EXCEPT !.cache = MapSet(m1, key, [value |-> value, freq |-> 1]),
                       !.freq = [d2 EXCEPT ![1] = KS_add(@, key)],
                       !.min_freq = 1]

\* faulty variant: the evicted key leaves the key table and stays in its bucket
LFU_put_keeps_bucket(c, key, value) ==
    IF c.capacity = 0 THEN c
    ELSE IF key \in DOMAIN c.cache THEN LFU_promote(c, key, value)
    ELSE LET full  == Cardinality(DOMAIN c.cache) >= c.capacity
             d0    == IF full THEN DD_touch(c.freq, c.min_freq) ELSE c.freq
             evict == d0[c.min_freq][1]
             m1    == IF full THEN MapDel(c.cache, evict) ELSE c.cache
             d2    == DD_touch(d0, 1)
         IN  [c EXCEPT !.cache = MapSet(m1, key, [value |-> value, freq |-> 1]),
                       !.freq = [d2 EXCEPT ![1] = KS_add(@, key)],
                       !.min_freq = 1]

LFU_put(c, key, value) ==
    IF c.capacity = 0 THEN c
    ELSE IF key \in DOMAIN c.cache THEN LFU_promote(c, key, value)
    ELSE LET full  == Cardinality(DOMAIN c.cache) >= c.capacity
             d0    == IF full THEN DD_touch(c.freq, c.min_freq) ELSE c.freq
             evict == d0[c.min_freq][1]
             d1    == IF full THEN [d0 EXCEPT ![c.min_freq] = Tail(@)] ELSE d0
             m1    == IF full THEN MapDel(c.cache, evict) ELSE c.cache
             d2    == DD_touch(d1, 1)
         IN  [c EXCEPT !.cache = MapSet(m1, key, [value |-> value, freq |-> 1]),
                       !.freq = [d2 EXCEPT ![1] = KS_add(@, key)],
                       !.min_freq = 1]

LFU_contains(c, key) == key \in DOMAIN c.cache

\* ------------------------------------------------------------------------
\* FIFOCache (policies.py 133-166)
\* ------------------------------------------------------------------------
FIFOCache(cap) ==
    [class |-> "FIFOCache", capacity |-> cap, cache |-> <<>>, hits |-> 0, misses |-> 0]

\* faulty variant: a hit that moves the key to the back of the queue
FIFO_get_reorders(c, key) ==
    IF key \notin OD_keys(c.cache)
    THEN [c EXCEPT !.misses = @ + 1]
    ELSE [c EXCEPT !.cache = OD_move_to_end(@, key), !.hits = @ + 1]

FIFO_get(c, key) ==
    IF key \notin OD_keys(c.cache)
    THEN [c EXCEPT !.misses = @ + 1]
    ELSE [c EXCEPT !.hits = @ + 1]

FIFO_get_ret(c, key) ==
    IF key \notin OD_keys(c.cache) THEN None ELSE OD_value(c.cache, key)

FIFO_put_raises(c, key) ==
    /\ key \notin OD_keys(c.cache)
    /\ Len(c.cache) >= c.capacity
    /\ Len(c.cache) = 0

FIFO_put(c, key, value) ==
    IF key \notin OD_keys(c.cache)
    THEN LET od == IF Len(c.cache) >= c.capacity THEN OD_popfirst(c.cache) ELSE c.cache
         IN  [c EXCEPT !.cache = OD_setitem(od, key, value)]
    ELSE c

FIFO_contains(c, key) == key \in OD_keys(c.cache)

\* ------------------------------------------------------------------------
\* RandomCache (policies.py 168-203); evict_key is random.choice's outcome
\* ------------------------------------------------------------------------
RandomCache(cap) ==
    [class |-> "RandomCache", capacity |-> cap, cache |-> EmptyMap, hits |-> 0, misses |-> 0]

Random_get(c, key) ==
    IF key \notin DOMAIN c.cache
    THEN [c EXCEPT !.misses = @ + 1]
    ELSE [c EXCEPT !.hits = @ + 1]

Random_get_ret(c, key) ==
    IF key \notin DOMAIN c.cache THEN None ELSE c.cache[key]

\* random.choice([]) raises IndexError
Random_put_raises(c, key) ==
    /\ key \notin DOMAIN c.cache
    /\ Cardinality(DOMAIN c.cache) >= c.capacity
    /\ DOMAIN c.cache = {}

\* the keys random.choice may return for this put (any key when none is drawn)
Random_choices(c, key) ==
    IF key \notin DOMAIN c.cache /\ Cardinality(DOMAIN c.cache) >= c.capacity
    THEN DOMAIN c.cache
    ELSE {key}

\* faulty variant: a put that never deletes the drawn key
Random_put_noevict(c, key, value, evict_key) ==
    IF key \notin DOMAIN c.cache
    THEN [c EXCEPT !.cache = MapSet(@, key, value)]
    ELSE c

Random_put(c, key, value, evict_key) ==
    IF key \notin DOMAIN c.cache
    THEN LET m == IF Cardinality(DOMAIN c.cache) >= c.capacity
                  THEN MapDel(c.cache, evict_key)
                  ELSE c.cache
         IN  [c EXCEPT !.cache = MapSet(m, key, value)]
    ELSE c

Random_contains(c, key) == key \in DOMAIN c.cache

\* ------------------------------------------------------------------------
\* HybridCache (manager.py 60-140)
\*   store: key -> value; freq: key -> count; recency: ordered key set
\* ------------------------------------------------------------------------
HybridCache(cap) ==
    [class |-> "HybridCache", capacity |-> cap, store |-> EmptyMap, freq |-> EmptyMap,
     recency |-> <<>>, hits |-> 0, misses |-> 0]

\* defaultdict(int): self.freq[k] for k in store inserts 0 for a missing k
Hybrid_freq_read(c) ==
    [k \in (DOMAIN c.freq) \cup (DOMAIN c.store) |->
        IF k \in DOMAIN c.freq THEN c.freq[k] ELSE 0]

Hybrid_min_freq(c) ==
    LET fr == Hybrid_freq_read(c)
    IN  CHOOSE m \in {fr[k] : k \in DOMAIN c.store} :
            \A k \in DOMAIN c.store : m <= fr[k]

Hybrid_candidates(c) ==
    {k \in DOMAIN c.store : Hybrid_freq_read(c)[k] = Hybrid_min_freq(c)}

\* the loop over recency never binds victim: UnboundLocalError
Hybrid_evict_raises(c) ==
    /\ DOMAIN c.store # {}
    /\ KS_keys(c.recency) \cap Hybrid_candidates(c) = {}

Hybrid_victim(c) ==
    LET i == CHOOSE i \in 1..Len(c.recency) :
                /\ c.recency[i] \in Hybrid_candidates(c)
                /\ \A j \in 1..(i - 1) : c.recency[j] \notin Hybrid_candidates(c)
    IN  c.recency[i]

\* faulty variant: the victim leaves the store and the recency order and keeps
\* its frequency entry
Hybrid_evict_one_keeps_freq(c) ==
    IF DOMAIN c.store = {} THEN c
    ELSE LET victim == Hybrid_victim(c)
         IN  [c EXCEPT !.store = MapDel(@, victim),
                       !.freq = Hybrid_freq_read(c),
                       !.recency = KS_delete(@, victim)]

Hybrid_evict_one(c) ==
    IF DOMAIN c.store = {} THEN c
    ELSE LET victim == Hybrid_victim(c)
         IN  [c EXCEPT !.store = MapDel(@, victim),
                       !.freq = MapDel(Hybrid_freq_read(c), victim),
                       !.recency = KS_delete(@, victim)]

\* faulty variant: the frequency is counted but the key keeps its recency position
Hybrid_touch_norecency(c, key) ==
    [c EXCEPT !.freq = MapSet(@, key, (IF key \in DOMAIN @ THEN @[key] ELSE 0) + 1)]

Hybrid_touch(c, key) ==
    [c EXCEPT !.freq = MapSet(@, key, (IF key \in DOMAIN @ THEN @[key] ELSE 0) + 1),
              !.recency = Append(KS_delete(@, key), key)]

Hybrid_get(c, key) ==
    IF key \notin DOMAIN c.store
    THEN [c EXCEPT !.misses = @ + 1]
    ELSE [Hybrid_touch(c, key) EXCEPT !.hits = @ + 1]

Hybrid_get_ret(c, key) ==
    IF key \notin DOMAIN c.store THEN None ELSE c.store[key]

Hybrid_put_raises(c, key) ==
    /\ key \notin DOMAIN c.store
    /\ c.capacity # 0
    /\ Cardinality(DOMAIN c.store) >= c.capacity
    /\ Hybrid_evict_raises(c)

Hybrid_put(c, key, value) ==
    IF key \in DOMAIN c.store
    THEN Hybrid_touch([c EXCEPT !.store = MapSet(@, key, value)], key)
    ELSE IF c.capacity = 0 THEN c
    ELSE LET e == IF Cardinality(DOMAIN c.store) >= c.capacity
                  THEN Hybrid_evict_one(c)
                  ELSE c
         IN  [e EXCEPT !.store = MapSet(@, key, value),
                       !.freq = MapSet(@, key, 1),
                       !.recency = KS_add(@, key)]

Hybrid_contains(c, key) == key \in DOMAIN c.store

\* ------------------------------------------------------------------------
\* CacheManager (manager.py 9-54): one policy object behind a lock; every
\* method delegates to the policy object's method of the same name
\* ------------------------------------------------------------------------
CM_create_cache(pol, cap) ==
    IF pol = "LRU" THEN LRUCache(cap)
    ELSE IF pol = "LFU" THEN LFUCache(cap)
    ELSE IF pol = "FIFO" THEN FIFOCache(cap)
    ELSE IF pol = "RANDOM" THEN RandomCache(cap)
    ELSE IF pol = "HYBRID" THEN HybridCache(cap)
    ELSE LRUCache(cap)

\* a policy name, character by character
Spelled(pol) ==
    CASE pol = "LRU"    -> <<"L", "R", "U">>
      [] pol = "LFU"    -> <<"L", "F", "U">>
      [] pol = "FIFO"   -> <<"F", "I", "F", "O">>
      [] pol = "RANDOM" -> <<"R", "A", "N", "D", "O", "M">>
      [] pol = "HYBRID" -> <<"H", "Y", "B", "R", "I", "D">>

\* str.upper(): each lower-case letter becomes its upper-case letter, any
\* other character stays
LowerCase ==
    <<"a", "b", "c", "d", "e", "f", "g", "h", "i", "j", "k", "l", "m",
      "n", "o", "p", "q", "r", "s", "t", "u", "v", "w", "x", "y", "z">>
UpperCase ==
    <<"A", "B", "C", "D", "E", "F", "G", "H", "I", "J", "K", "L", "M",
      "N", "O", "P", "Q", "R", "S", "T", "U", "V", "W", "X", "Y", "Z">>
char_upper(ch) ==
    IF \E k \in DOMAIN LowerCase : LowerCase[k] = ch
    THEN UpperCase[CHOOSE k \in DOMAIN LowerCase : LowerCase[k] = ch]
    ELSE ch

\* faulty variant: the name is taken as written
str_upper_as_written(name) == name

str_upper(name) == [k \in 1..Len(name) |-> char_upper(name[k])]

\* the string of a sequence of characters
RECURSIVE Joined(_)
Joined(chars) == IF chars = <<>> THEN "" ELSE Head(chars) \o Joined(Tail(chars))

\* CacheManager.__init__(policy, capacity), lines 11-14: the manager's policy,
\* capacity and cache fields
CacheManager_init(name, cap) ==
    LET pol == Joined(str_upper(name))
    IN  [policy |-> pol, capacity |-> cap, cache |-> CM_create_cache(pol, cap)]

\* faulty variant: a get that reaches no policy counter
CM_get_uncounted(c, key) == c

CM_get(c, key) ==
    CASE c.class = "LRUCache"    -> LRU_get(c, key)
      [] c.class = "LFUCache"    -> LFU_get(c, key)
      [] c.class = "FIFOCache"   -> FIFO_get(c, key)
      [] c.class = "RandomCache" -> Random_get(c, key)
      [] c.class = "HybridCache" -> Hybrid_get(c, key)

CM_get_ret(c, key) ==
    CASE c.class = "LRUCache"    -> LRU_get_ret(c, key)
      [] c.class = "LFUCache"    -> LFU_get_ret(c, key)
      [] c.class = "FIFOCache"   -> FIFO_get_ret(c, key)
      [] c.class = "RandomCache" -> Random_get_ret(c, key)
      [] c.class = "HybridCache" -> Hybrid_get_ret(c, key)

\* whether put(key, .) ends by an exception leaving the with-block
CM_put_raises(c, key) ==
    CASE c.class = "LRUCache"    -> LRU_put_raises(c, key)
      [] c.class = "LFUCache"    -> LFU_put_raises(c, key)
      [] c.class = "FIFOCache"   -> FIFO_put_raises(c, key)
      [] c.class = "RandomCache" -> Random_put_raises(c, key)
      [] c.class = "HybridCache" -> Hybrid_put_raises(c, key)

\* the outcomes random.choice can have in this put (one dummy outcome for the
\* policies that draw nothing)
CM_put_choices(c, key) ==
    IF c.class = "RandomCache" THEN Random_choices(c, key) ELSE {key}

CM_put(c, key, value, choice) ==
    CASE c.class = "LRUCache"    -> LRU_put(c, key, value)
      [] c.class = "LFUCache"    -> LFU_put(c, key, value)
      [] c.class = "FIFOCache"   -> FIFO_put(c, key, value)
      [] c.class = "RandomCache" -> Random_put(c, key, value, choice)
      [] c.class = "HybridCache" -> Hybrid_put(c, key, value)

CM_contains(c, key) ==
    CASE c.class = "LRUCache"    -> LRU_contains(c, key)
      [] c.class = "LFUCache"    -> LFU_contains(c, key)
      [] c.class = "FIFOCache"   -> FIFO_contains(c, key)
      [] c.class = "RandomCache" -> Random_contains(c, key)
      [] c.class = "HybridCache" -> Hybrid_contains(c, key)

\* faulty variant: contains answered through get, which counts and promotes
CM_contains_via_get(c, key) == CM_get(c, key)

\* the policy object after contains(key): `key in self.cache` reads only
CM_contains_effect(c, key) == c

\* get_stats()['size']: len(self.cache) / len(self.store)
CM_size(c) ==
    CASE c.class \in {"LRUCache", "FIFOCache"}   -> Len(c.cache)
      [] c.class \in {"LFUCache", "RandomCache"} -> Cardinality(DOMAIN c.cache)
      [] c.class = "HybridCache"                 -> Cardinality(DOMAIN c.store)

\* get_stats(): the same five entries in every policy class
CM_get_stats(c) ==
    LET total == c.hits + c.misses
    IN  [hits |-> c.hits, misses |-> c.misses,
         hit_ratio |-> IF total > 0 THEN [num |-> c.hits, den |-> total]
                       ELSE [num |-> 0, den |-> 1],
         size |-> CM_size(c), capacity |-> c.capacity]

\* faulty variant: clear that always builds the default policy
CM_clear_default(pol, cap) == LRUCache(cap)

\* clear(): self.cache = self._create_cache(self.policy, self.capacity)
CM_clear(pol, cap) == CM_create_cache(pol, cap)

\* whether put(key, .) removes an entry before it inserts
CM_put_evicts(c, key) ==
    /\ ~CM_put_raises(c, key)
    /\ ~CM_contains(c, key)
    /\ c.capacity # 0
    /\ CM_size(c) >= c.capacity

\* the policy object inside put(key, .), after the eviction and before the
\* insertion
CM_put_evicted(c, key, choice) ==
    CASE c.class \in {"LRUCache", "FIFOCache"} -> [c EXCEPT !.cache = OD_popfirst(@)]
      [] c.class = "LFUCache" ->
             LET d0    == DD_touch(c.freq, c.min_freq)
                 evict == d0[c.min_freq][1]
             IN  [c EXCEPT !.freq = [d0 EXCEPT ![c.min_freq] = Tail(@)],
                           !.cache = MapDel(@, evict)]
      [] c.class = "RandomCache" -> [c EXCEPT !.cache = MapDel(@, choice)]
      [] c.class = "HybridCache" -> Hybrid_evict_one(c)

\* faulty variant: a lock that is always granted
Lock_always_granted(l) == TRUE

\* faulty variant: a lock that stays held when the body of the with-block raised
Lock_release_unless_raised(l, raised) == IF raised THEN l ELSE "free"

\* threading.Lock: leaving `with self.lock:` releases the lock, whether the
\* body returned or raised
Lock_release(l, raised) == "free"

\* threading.Lock: `with self.lock:` enters only while no thread holds it
Free == "free"
Lock_acquire_enabled(l) == l = Free

\* ------------------------------------------------------------------------
\* NetworkTopology (topology.py): a cut of create_realistic_network with two
\* origins, two edge servers and two clients, each client linked to the edge
\* of its own region
\* ------------------------------------------------------------------------
\*
\* CDNSimulation.network: which graph the engine was built on.  "realistic"
\* is the cut above; "single" and "single_lon" are graphs of one origin
\* (origin_ny in the first, origin_lon in the second), one edge server (10
\* from the origin) and one client (5 from the edge server).
\* The topology's own operations are also called on three more graphs:
\* "split" is the cut without the links that join edge_tor to the rest;
\* "shortcut" has one client linked to edge_bos and to the origin, which is
\* linked to both edge servers; "noedge" has an origin and a client only.
VARIABLE topology

Topologies == {"realistic", "single", "single_lon"}
OracleTopologies == Topologies \cup {"split", "shortcut", "noedge"}

Origins ==
    CASE topology \in {"single", "shortcut", "noedge"} -> {"origin_ny"}
      [] topology = "single_lon"                       -> {"origin_lon"}
      [] OTHER                                         -> {"origin_ny", "origin_lon"}
EdgeNodes ==
    CASE topology \in {"realistic", "split", "shortcut"} -> {"edge_bos", "edge_tor"}
      [] topology = "noedge"                             -> {}
      [] OTHER                                           -> {"edge_bos"}
ClientNodes ==
    IF topology \in {"realistic", "split"} THEN {"client_0", "client_1"} ELSE {"client_0"}
Nodes == Origins \cup EdgeNodes \cup ClientNodes

NodeType(n) ==
    IF n \in Origins THEN "origin" ELSE IF n \in EdgeNodes THEN "edge" ELSE "client"

\* G.add_edge(src, dst, latency=...)
Links ==
    IF topology = "single"
    THEN { <<"origin_ny", "edge_bos", 10>>, <<"client_0", "edge_bos", 5>> }
    ELSE IF topology = "single_lon"
    THEN { <<"origin_lon", "edge_bos", 10>>, <<"client_0", "edge_bos", 5>> }
    ELSE IF topology = "split"
    THEN { <<"origin_ny", "edge_bos", 3>>, <<"origin_lon", "edge_bos", 65>>,
           <<"client_0", "edge_bos", 5>>, <<"client_1", "edge_tor", 4>> }
    ELSE IF topology = "shortcut"
    THEN { <<"origin_ny", "edge_bos", 3>>, <<"origin_ny", "edge_tor", 1>>,
           <<"client_0", "edge_bos", 50>>, <<"client_0", "origin_ny", 1>> }
    ELSE IF topology = "noedge"
    THEN { <<"client_0", "origin_ny", 9>> }
    ELSE { <<"origin_ny", "edge_bos", 3>>, <<"origin_ny", "edge_tor", 8>>,
           <<"origin_lon", "edge_bos", 65>>, <<"origin_lon", "edge_tor", 70>>,
           <<"edge_bos", "edge_tor", 7>>,
           <<"client_0", "edge_bos", 5>>, <<"client_1", "edge_tor", 4>> }

has_edge(a, b) == \E l \in Links : {l[1], l[2]} = {a, b} /\ a # b
edge_latency(a, b) == (CHOOSE l \in Links : {l[1], l[2]} = {a, b})[3]
neighbors(a) == {b \in Nodes : has_edge(a, b)}

RECURSIVE SumWeights(_)
SumWeights(ls) ==
    IF ls = {} THEN 0
    ELSE LET l == CHOOSE x \in ls : TRUE IN l[3] + SumWeights(ls \ {l})

\* larger than the weight of any path
Unreachable == SumWeights(Links) + 1

Min2(a, b) == IF a <= b THEN a ELSE b

RECURSIVE MinOf(_)
MinOf(S) ==
    LET x == CHOOSE y \in S : TRUE
    IN  IF S = {x} THEN x ELSE Min2(x, MinOf(S \ {x}))

\* nx.shortest_path(G, a, b, weight='latency') summed over its links: the
\* least total weight of a walk of at most k links from a to b
RECURSIVE PathCost(_, _, _)
PathCost(a, b, k) ==
    IF a = b THEN 0
    ELSE IF k = 0 THEN Unreachable
    ELSE MinOf({Unreachable} \cup
               {Min2(Unreachable, edge_latency(a, n) + PathCost(n, b, k - 1)) :
                    n \in neighbors(a)})

\* the fallback of get_latency: no path, or any exception (unknown node)
FallbackLatency == 100

get_latency(node1, node2) ==
    IF has_edge(node1, node2) THEN edge_latency(node1, node2)
    ELSE IF node1 \notin Nodes \/ node2 \notin Nodes THEN FallbackLatency
    ELSE LET d == PathCost(node1, node2, Cardinality(Nodes) - 1)
         IN  IF d >= Unreachable THEN FallbackLatency ELSE d

\* tuple(sorted([node1, node2])): the ids in string order
SortOrder ==
    <<"client_0", "client_1", "client_x", "edge_bos", "edge_tor", "origin_lon", "origin_ny">>
SortRank(n) == CHOOSE i \in 1..Len(SortOrder) : SortOrder[i] = n

\* faulty variant: a memo keyed by the first node alone
cache_key_first_node(node1, node2) == <<node1, node1>>

\* faulty variant: the memo is keyed by the second node alone
cache_key_second_node(node1, node2) == <<node2, node2>>

cache_key(node1, node2) ==
    IF SortRank(node1) <= SortRank(node2) THEN <<node1, node2>> ELSE <<node2, node1>>

\* get_latency with its memo lc (NetworkTopology.latency_cache): what it
\* returns, and the memo it leaves; get_latency above is what lines 147-164
\* compute when the pair is not in the memo.  A pair with a node that is not
\* in the graph ends in the outer except, which returns without storing.
get_latency_ret(lc, node1, node2) ==
    IF cache_key(node1, node2) \in DOMAIN lc
    THEN lc[cache_key(node1, node2)]
    ELSE get_latency(node1, node2)

\* faulty variant: the memo keeps the fallback latency instead of the latency
\* computed
get_latency_memo_stores_fallback(lc, node1, node2) ==
    IF cache_key(node1, node2) \in DOMAIN lc THEN lc
    ELSE IF node1 \notin Nodes \/ node2 \notin Nodes THEN lc
    ELSE MapSet(lc, cache_key(node1, node2), FallbackLatency)

get_latency_memo(lc, node1, node2) ==
    IF cache_key(node1, node2) \in DOMAIN lc THEN lc
    ELSE IF node1 \notin Nodes \/ node2 \notin Nodes THEN lc
    ELSE MapSet(lc, cache_key(node1, node2), get_latency(node1, node2))

\* min(..., key=...) over a list returns the first minimal element; the lists
\* are in node insertion order, which NodeOrder gives
NodeOrder ==
    <<"origin_ny", "origin_lon", "edge_bos", "edge_tor", "client_0", "client_1">>
NodeRank(n) == CHOOSE i \in 1..Len(NodeOrder) : NodeOrder[i] = n

FirstMin(S, cost) ==
    CHOOSE s \in S :
        \A t \in S : cost[s] < cost[t] \/ (cost[s] = cost[t] /\ NodeRank(s) <= NodeRank(t))

NoEdge == "None"

topo_find_nearest_edge_server(client_node) ==
    IF EdgeNodes = {} THEN NoEdge
    ELSE LET direct == neighbors(client_node) \cap EdgeNodes
         IN  IF direct # {}
             THEN FirstMin(direct, [s \in direct |-> edge_latency(client_node, s)])
             ELSE FirstMin(EdgeNodes, [s \in EdgeNodes |-> get_latency(client_node, s)])

\* find_nearest_edge_server on a topology whose memo is lc: the fallback
\* search asks get_latency for every edge server, which reads and fills lc
find_nearest_edge_server_ret(lc, client_node) ==
    IF EdgeNodes = {} THEN NoEdge
    ELSE LET direct == neighbors(client_node) \cap EdgeNodes
         IN  IF direct # {}
             THEN FirstMin(direct, [s \in direct |-> edge_latency(client_node, s)])
             ELSE FirstMin(EdgeNodes,
                           [s \in EdgeNodes |-> get_latency_ret(lc, client_node, s)])

RECURSIVE memo_all(_, _, _)
memo_all(lc, client_node, S) ==
    IF S = {} THEN lc
    ELSE LET s == CHOOSE x \in S : TRUE
         IN  memo_all(get_latency_memo(lc, client_node, s), client_node, S \ {s})

find_nearest_edge_server_memo(lc, client_node) ==
    IF EdgeNodes = {} \/ neighbors(client_node) \cap EdgeNodes # {} THEN lc
    ELSE memo_all(lc, client_node, EdgeNodes)

\* the region hint of a request; NoRegion is a request without one
NoRegion == "None"
Regions == {NoRegion, "US", "EU", "ZZ"}

\* find_origin_server(client_region=region); content_location keeps its
\* default 'NY'.  The hints of the model are upper case already.
find_origin_server(region) ==
    IF region # NoRegion
    THEN IF region \in {"US", "NA", "CA"} THEN "origin_ny"
         ELSE IF region \in {"EU", "GB", "UK"} THEN "origin_lon"
         ELSE "origin_ny"
    ELSE "origin_ny"

\* ------------------------------------------------------------------------
\* CDNSimulation (engine.py): requests, metrics and the report
\* ------------------------------------------------------------------------
MaxRequests == 3

\* request records: the fields process_request reads.  client_x is a client
\* id that is no node of the topology.
ReqClients == ClientNodes \cup {"client_x"}
ReqContents == {"A", "B"}
ReqRegions == {NoRegion, "EU"}
ContentSize(content_id) == IF content_id = "A" THEN 100 ELSE 50
RequestSet ==
    { [client |-> cl, content_id |-> ct, size |-> ContentSize(ct), region |-> rg] :
        cl \in ReqClients, ct \in ReqContents, rg \in ReqRegions }

\* latency charged when the client has no edge server
PenaltyLatency == 1000

initialize_metrics ==
    [total_requests |-> 0, cache_hits |-> 0, cache_misses |-> 0, total_latency |-> 0,
     origin_requests |-> 0, bandwidth_saved |-> 0,
     server_loads |-> EmptyMap, content_served |-> EmptyMap,
     hit_latencies |-> <<>>, miss_latencies |-> <<>>]

initialize_edge_servers(pol, size) ==
    [e \in EdgeNodes |-> [cache |-> CM_create_cache(pol, size), load |-> 0]]

precompute_client_edge_mapping ==
    [c \in ClientNodes |-> topo_find_nearest_edge_server(c)]

\* defaultdict(int)[k] += 1
DD_incr(dd, k) == MapSet(dd, k, (IF k \in DOMAIN dd THEN dd[k] ELSE 0) + 1)

\* faulty variant: the request of a client without edge server counted as a miss
metrics_penalty_counts_miss(m) ==
    [m EXCEPT !.total_requests = @ + 1,
              !.total_latency = @ + PenaltyLatency,
              !.cache_misses = @ + 1,
              !.miss_latencies = Append(@, PenaltyLatency)]

\* process_request, lines 78-81: the request of a client without edge server
metrics_penalty(m) ==
    [m EXCEPT !.total_requests = @ + 1,
              !.total_latency = @ + PenaltyLatency,
              !.miss_latencies = Append(@, PenaltyLatency)]

\* process_request, line 87
metrics_load(m, edge_server_id) ==
    [m EXCEPT !.server_loads = DD_incr(@, edge_server_id)]

\* faulty variant: a hit that saves no bandwidth
metrics_hit_saves_nothing(m, content_id, content_size, latency) ==
    [m EXCEPT !.cache_hits = @ + 1,
              !.content_served = DD_incr(@, content_id),
              !.hit_latencies = Append(@, latency),
              !.total_requests = @ + 1,
              !.total_latency = @ + latency]

\* process_request, lines 98-101 and 123-124: a request served from the cache
metrics_hit(m, content_id, content_size, latency) ==
    [m EXCEPT !.cache_hits = @ + 1,
              !.bandwidth_saved = @ + content_size,
              !.content_served = DD_incr(@, content_id),
              !.hit_latencies = Append(@, latency),
              !.total_requests = @ + 1,
              !.total_latency = @ + latency]

\* process_request, lines 118-124: a request fetched from the origin
metrics_miss(m, content_id, latency) ==
    [m EXCEPT !.cache_misses = @ + 1,
              !.origin_requests = @ + 1,
              !.content_served = DD_incr(@, content_id),
              !.miss_latencies = Append(@, latency),
              !.total_requests = @ + 1,
              !.total_latency = @ + latency]

\* process_request, lines 105-113: the latency of a miss
miss_latency(client, edge_server_id, region) ==
    LET origin_server == find_origin_server(region)
        client_to_edge == get_latency(client, edge_server_id)
        edge_to_origin == get_latency(edge_server_id, origin_server)
    IN  client_to_edge + edge_to_origin + client_to_edge

\* a quotient a / b, kept exact as numerator and denominator
Frac(a, b) == [num |-> a, den |-> b]
Zero == Frac(0, 1)

RECURSIVE SeqSum(_)
SeqSum(q) == IF q = <<>> THEN 0 ELSE Head(q) + SeqSum(Tail(q))

RECURSIVE InsertSorted(_, _)
InsertSorted(q, x) ==
    IF q = <<>> THEN <<x>>
    ELSE IF x <= Head(q) THEN <<x>> \o q
    ELSE <<Head(q)>> \o InsertSorted(Tail(q), x)

\* faulty variant: the samples are left in the order they were collected
Sorted_keeps_order(q) == q

RECURSIVE Sorted(_)
Sorted(q) == IF q = <<>> THEN <<>> ELSE InsertSorted(Sorted(Tail(q)), Head(q))

RECURSIVE SumSizes(_)
SumSizes(reqs) == IF reqs = <<>> THEN 0 ELSE Head(reqs).size + SumSizes(Tail(reqs))

\* faulty variant: a report of no request that carries only the ratios
empty_report_ratios_only(pol) ==
    [policy |-> pol, hit_ratio |-> Zero, bandwidth_saved |-> Zero,
     cache_efficiency |-> Zero]

\* get_metrics(), lines 158-176: the report when total_requests is 0
empty_report(pol) ==
    [policy |-> pol, hit_ratio |-> Zero, avg_latency |-> Zero,
     median_latency |-> 0, p95_latency |-> 0, p99_latency |-> 0,
     avg_hit_latency |-> Zero, avg_miss_latency |-> Zero,
     origin_requests |-> 0, cache_hits |-> 0, cache_misses |-> 0,
     total_requests |-> 0, bandwidth_saved |-> Zero, server_loads |-> EmptyMap,
     total_bandwidth_saved_kb |-> 0, cache_efficiency |-> Zero]

\* get_metrics(): all_latencies is 0-indexed in the code, 1-indexed here;
\* int(n * 0.95) and int(n * 0.99) equal (95 n) div 100 and (99 n) div 100
\* for the list lengths of the model
get_metrics(m, processed, pol, size) ==
    IF m.total_requests = 0
    THEN empty_report(pol)
    ELSE LET all_latencies == Sorted(m.hit_latencies \o m.miss_latencies)
             n == Len(all_latencies)
             p95_idx == (n * 95) \div 100
             p99_idx == (n * 99) \div 100
             total_bandwidth == SumSizes(processed)
         IN  [policy |-> pol,
              hit_ratio |-> Frac(m.cache_hits, m.total_requests),
              avg_latency |-> Frac(m.total_latency, m.total_requests),
              median_latency |-> IF n > 0 THEN all_latencies[(n \div 2) + 1] ELSE 0,
              p95_latency |-> IF p95_idx < n THEN all_latencies[p95_idx + 1] ELSE 0,
              p99_latency |-> IF p99_idx < n THEN all_latencies[p99_idx + 1] ELSE 0,
              avg_hit_latency |-> IF m.hit_latencies # <<>>
                                  THEN Frac(SeqSum(m.hit_latencies), Len(m.hit_latencies))
                                  ELSE Zero,
              avg_miss_latency |-> IF m.miss_latencies # <<>>
                                   THEN Frac(SeqSum(m.miss_latencies), Len(m.miss_latencies))
                                   ELSE Zero,
              origin_requests |-> m.origin_requests,
              cache_hits |-> m.cache_hits,
              cache_misses |-> m.cache_misses,
              total_requests |-> m.total_requests,
              bandwidth_saved |-> IF total_bandwidth > 0
                                  THEN Frac(m.bandwidth_saved, total_bandwidth)
                                  ELSE Zero,
              server_loads |-> m.server_loads,
              total_bandwidth_saved_kb |-> m.bandwidth_saved,
              cache_efficiency |-> IF size > 0 THEN Frac(m.cache_hits, size) ELSE Zero]

\* faulty variant: the samples are merged and sorted in the hit list itself
get_metrics_sorts_in_place(m) ==
    [m EXCEPT !.hit_latencies = Sorted(@ \o m.miss_latencies)]

\* self.metrics after get_metrics(): the list it sorts is a new one
\* (hit_latencies + miss_latencies), everything else is only read
get_metrics_effect(m) == m

\* ------------------------------------------------------------------------
\* What a policy object stores, read off its fields
\* ------------------------------------------------------------------------
StoredKeys(c) ==
    CASE c.class \in {"LRUCache", "FIFOCache"}   -> OD_keys(c.cache)
      [] c.class \in {"LFUCache", "RandomCache"} -> DOMAIN c.cache
      [] c.class = "HybridCache"                 -> DOMAIN c.store

StoredValue(c, k) ==
    CASE c.class \in {"LRUCache", "FIFOCache"} -> OD_value(c.cache, k)
      [] c.class = "LFUCache"                  -> c.cache[k].value
      [] c.class = "RandomCache"               -> c.cache[k]
      [] c.class = "HybridCache"               -> c.store[k]

StoredMap(c) == [k \in StoredKeys(c) |-> StoredValue(c, k)]

\* the access count a frequency policy records for a stored key
StoredFreq(c, k) ==
    CASE c.class = "LFUCache"    -> c.cache[k].freq
      [] c.class = "HybridCache" -> c.freq[k]

\* an OrderedDict holds no key twice
NoDuplicateKey(c) ==
    c.class \in {"LRUCache", "FIFOCache"} =>
        \A i, j \in 1..Len(c.cache) : c.cache[i][1] = c.cache[j][1] => i = j

\* ------------------------------------------------------------------------
\* State
\* ------------------------------------------------------------------------
VARIABLES
    \* --- a CacheManager driven directly by its callers
    policy_name, \* history: the policy argument of the constructor, as the
                 \*   characters of str(policy)
    policy,      \* CacheManager.policy
    capacity,    \* CacheManager.capacity
    cache,       \* CacheManager.cache: the policy object
    last,        \* the last call on the manager: operation, arguments, result,
                 \*   and the policy object as it was when the call began
    nops,        \* number of calls made so far (logical clock)
    lastAccess,  \* history: key -> clock of its latest get hit or storing put
    insertedAt,  \* history: key -> clock of the put that last inserted it
    \* --- a CDNSimulation engine
    cache_policy,        \* CDNSimulation.cache_policy
    cache_size,          \* CDNSimulation.cache_size
    edge_servers,        \* CDNSimulation.edge_servers: edge id -> [cache, load]
    client_edge_map,     \* CDNSimulation.client_edge_map
    metrics,             \* CDNSimulation.metrics
    requests_processed,  \* CDNSimulation.requests_processed
    pc,                  \* where run_simulation stands
    given,               \* history: the requests handed to process_request so far
    report,              \* what run_simulation / get_metrics returned last
    lastreq,             \* history: the last process_request call, its result,
                         \*   and the engine's state when it began
    previous,            \* history: the requests and the report of the run before
                         \*   this one
    atend,               \* history: metrics and requests_processed when the loop
                         \*   of run_simulation ended
    again                \* what a get_metrics() call after the run returned

cacheVars == <<policy_name, policy, capacity, cache, last, nops, lastAccess, insertedAt>>
engineVars == <<topology, cache_policy, cache_size, edge_servers, client_edge_map,
                metrics, requests_processed, pc, given, report, lastreq,
                previous, atend, again>>

\* threads calling one CacheManager (policy, capacity and cache above)
VARIABLES
    lock,                \* CacheManager.lock: Free, or the thread that holds it
    thr,                 \* per thread: where it is in its call, and what it saw
    committed,           \* history: the policy object after the complete calls so
                         \*   far, taken one after the other in lock order
    ncalls               \* history: number of calls made

concVars == <<lock, thr, committed, ncalls>>

\* the topology's operations, called on one NetworkTopology
VARIABLES
    latency_cache,       \* NetworkTopology.latency_cache: sorted pair -> latency
    returned,            \* history: <<node1, node2>> -> the values get_latency has
                         \*   returned for it
    asked,               \* history: the last call of the topology, and its result
    nasked               \* history: number of calls made

oracleVars == <<latency_cache, returned, asked, nasked>>

\* several engines built on one NetworkTopology, as main builds one per policy
VARIABLES
    engines,             \* engine id -> the CDNSimulation's fields, the requests it
                         \*   was given and the outcome of each
    alone                \* history: engine id -> the same engine given the same
                         \*   requests on a topology no other engine uses

pairVars == <<engines, alone>>
vars == <<cacheVars, engineVars, concVars, oracleVars, pairVars>>

NoCall == [op |-> "none", key |-> "A", value |-> None, ret |-> None,
           found |-> FALSE, raised |-> FALSE, pre |-> LRUCache(0)]

CacheInit ==
    /\ policy \in Policies
    /\ policy_name = Spelled(policy)
    /\ capacity \in 0..MaxCap
    /\ cache = CM_create_cache(policy, capacity)
    /\ last = NoCall
    /\ nops = 0
    /\ lastAccess = [k \in Keys |-> 0]
    /\ insertedAt = [k \in Keys |-> 0]

\* the names a CacheManager is constructed with: the policy names in lower,
\* upper and mixed case, names of no policy, the empty name, and str(None)
PolicyNames ==
    { <<"l", "r", "u">>, <<"L", "R", "U">>, <<"L", "f", "u">>, <<"f", "i", "f", "o">>,
      <<"R", "a", "n", "d", "o", "m">>, <<"h", "y", "b", "r", "i", "D">>,
      <<"a", "r", "c">>, <<"L", "R", "U", "2">>, <<>>, <<"N", "o", "n", "e">> }

\* a CacheManager constructed with any of these names and any capacity
NameInit ==
    /\ policy_name \in PolicyNames
    /\ capacity \in 0..MaxCap
    /\ policy = CacheManager_init(policy_name, capacity).policy
    /\ cache = CacheManager_init(policy_name, capacity).cache
    /\ last = NoCall
    /\ nops = 0
    /\ lastAccess = [k \in Keys |-> 0]
    /\ insertedAt = [k \in Keys |-> 0]

MaxNameOps == 3

\* CacheManager.get(key)
Get(key) ==
    /\ nops < MaxOps
    /\ cache' = CM_get(cache, key)
    /\ last' = [op |-> "get", key |-> key, value |-> None, ret |-> CM_get_ret(cache, key),
                found |-> FALSE, raised |-> FALSE, pre |-> cache]
    /\ nops' = nops + 1
    /\ lastAccess' = IF CM_contains(cache, key)
                     THEN [lastAccess EXCEPT ![key] = nops + 1]
                     ELSE lastAccess
    /\ UNCHANGED <<policy_name, policy, capacity, insertedAt>>
    /\ UNCHANGED <<engineVars, concVars, oracleVars, pairVars>>

\* CacheManager.put(key, value): the policy's put, or the exception it raises
Put(key, value) ==
    /\ nops < MaxOps
    /\ nops' = nops + 1
    /\ IF CM_put_raises(cache, key)
       THEN /\ cache' = cache
            /\ last' = [op |-> "put", key |-> key, value |-> value, ret |-> None,
                        found |-> FALSE, raised |-> TRUE, pre |-> cache]
            /\ UNCHANGED <<lastAccess, insertedAt>>
       ELSE \E choice \in CM_put_choices(cache, key) :
            /\ cache' = CM_put(cache, key, value, choice)
            /\ last' = [op |-> "put", key |-> key, value |-> value, ret |-> None,
                        found |-> FALSE, raised |-> FALSE, pre |-> cache]
            /\ lastAccess' = IF CM_contains(cache', key)
                             THEN [lastAccess EXCEPT ![key] = nops + 1]
                             ELSE lastAccess
            /\ insertedAt' = IF CM_contains(cache', key) /\ ~CM_contains(cache, key)
                             THEN [insertedAt EXCEPT ![key] = nops + 1]
                             ELSE insertedAt
    /\ UNCHANGED <<policy_name, policy, capacity>>
    /\ UNCHANGED <<engineVars, concVars, oracleVars, pairVars>>

\* CacheManager.contains(key)
Contains(key) ==
    /\ nops < MaxOps
    /\ nops' = nops + 1
    /\ cache' = CM_contains_effect(cache, key)
    /\ last' = [op |-> "contains", key |-> key, value |-> None, ret |-> None,
                found |-> CM_contains(cache, key), raised |-> FALSE, pre |-> cache]
    /\ UNCHANGED <<policy_name, policy, capacity, lastAccess, insertedAt>>
    /\ UNCHANGED <<engineVars, concVars, oracleVars, pairVars>>

CacheNext ==
    \/ \E key \in Keys : Get(key)
    \/ \E key \in Keys, value \in Values : Put(key, value)
    \/ \E key \in Keys : Contains(key)

\* CacheManager.clear()
Clear ==
    /\ nops < MaxClearOps
    /\ nops' = nops + 1
    /\ cache' = CM_clear(policy, capacity)
    /\ last' = [op |-> "clear", key |-> "A", value |-> None, ret |-> None,
                found |-> FALSE, raised |-> FALSE, pre |-> cache]
    /\ lastAccess' = [k \in Keys |-> 0]
    /\ insertedAt' = [k \in Keys |-> 0]
    /\ UNCHANGED <<policy_name, policy, capacity>>
    /\ UNCHANGED <<engineVars, concVars, oracleVars, pairVars>>

ClearNext ==
    \/ nops < MaxClearOps /\ CacheNext
    \/ Clear

\* the calls on a manager constructed from a name, MaxNameOps of them
NameNext == nops < MaxNameOps /\ ClearNext

\* ------------------------------------------------------------------------
\* Threads on one CacheManager.  A call is made (Call), enters the with-block
\* (Acquire), runs the policy's method (Body; a put that evicts stops between
\* its eviction and its insertion, and Insert finishes it), and leaves the
\* with-block (Release), also when the method raised.
\* ------------------------------------------------------------------------
Threads == {"t1", "t2"}
ConcKeys == {"A", "B"}
MaxCalls == 3

NoThread ==
    [pc |-> "idle", op |-> "none", key |-> "A", value |-> None, choice |-> "A",
     pre |-> LRUCache(0), base |-> LRUCache(0), sawmid |-> FALSE,
     ret |-> None, raised |-> FALSE]

ConcInit ==
    /\ lock = Free
    /\ thr = [t \in Threads |-> NoThread]
    /\ committed = cache
    /\ ncalls = 0

\* the policy object after the complete call of thread record r on c
CallEffect(r, c, pol, cap) ==
    CASE r.op = "get"       -> CM_get(c, r.key)
      [] r.op = "put"       -> IF CM_put_raises(c, r.key) THEN c
                               ELSE CM_put(c, r.key, r.value, r.choice)
      [] r.op = "contains"  -> CM_contains_effect(c, r.key)
      [] r.op = "get_stats" -> c
      [] r.op = "clear"     -> CM_clear(pol, cap)

\* what the complete call of thread record r returns on c (None: nothing)
CallReturn(r, c) ==
    CASE r.op = "get"       -> CM_get_ret(c, r.key)
      [] r.op = "contains"  -> CM_contains(c, r.key)
      [] r.op = "get_stats" -> CM_get_stats(c)
      [] r.op \in {"put", "clear"} -> None

Call(t, op, key, value) ==
    /\ thr[t].pc \in {"idle", "returned"}
    /\ ncalls < MaxCalls
    /\ ncalls' = ncalls + 1
    /\ thr' = [thr EXCEPT ![t] = [NoThread EXCEPT !.pc = "waiting", !.op = op,
                                                   !.key = key, !.value = value]]
    /\ UNCHANGED <<lock, committed>>
    /\ UNCHANGED <<cacheVars, engineVars, oracleVars, pairVars>>

Acquire(t) ==
    /\ thr[t].pc = "waiting"
    /\ Lock_acquire_enabled(lock)
    /\ lock' = t
    /\ thr' = [thr EXCEPT ![t].pc = "in"]
    /\ UNCHANGED <<committed, ncalls>>
    /\ UNCHANGED <<cacheVars, engineVars, oracleVars, pairVars>>

Body(t) ==
    /\ thr[t].pc = "in"
    /\ LET r == [thr[t] EXCEPT !.pre = cache, !.base = committed,
                               !.sawmid = \E u \in Threads \ {t} : thr[u].pc = "mid"]
       IN  IF r.op = "put" /\ CM_put_raises(cache, r.key)
           THEN /\ thr' = [thr EXCEPT ![t] = [r EXCEPT !.pc = "out", !.raised = TRUE]]
                /\ UNCHANGED cache
           ELSE IF r.op = "put" /\ CM_put_evicts(cache, r.key)
           THEN \E choice \in CM_put_choices(cache, r.key) :
                /\ cache' = CM_put_evicted(cache, r.key, choice)
                /\ thr' = [thr EXCEPT ![t] = [r EXCEPT !.pc = "mid", !.choice = choice]]
           ELSE /\ cache' = CallEffect(r, cache, policy, capacity)
                /\ thr' = [thr EXCEPT ![t] = [r EXCEPT !.pc = "out",
                                                       !.ret = CallReturn(r, cache)]]
    /\ UNCHANGED <<lock, committed, ncalls>>
    /\ UNCHANGED <<policy_name, policy, capacity, last, nops, lastAccess, insertedAt>>
    /\ UNCHANGED <<engineVars, oracleVars, pairVars>>

Insert(t) ==
    /\ thr[t].pc = "mid"
    /\ cache' = CM_put(thr[t].pre, thr[t].key, thr[t].value, thr[t].choice)
    /\ thr' = [thr EXCEPT ![t].pc = "out"]
    /\ UNCHANGED <<lock, committed, ncalls>>
    /\ UNCHANGED <<policy_name, policy, capacity, last, nops, lastAccess, insertedAt>>
    /\ UNCHANGED <<engineVars, oracleVars, pairVars>>

Release(t) ==
    /\ thr[t].pc = "out"
    /\ lock' = Lock_release(lock, thr[t].raised)
    /\ committed' = CallEffect(thr[t], thr[t].pre, policy, capacity)
    /\ thr' = [thr EXCEPT ![t].pc = "returned"]
    /\ UNCHANGED ncalls
    /\ UNCHANGED <<cacheVars, engineVars, oracleVars, pairVars>>

ConcNext ==
    \/ \E t \in Threads, op \in {"get", "contains"}, key \in ConcKeys :
           Call(t, op, key, None)
    \/ \E t \in Threads, op \in {"get_stats", "clear"} : Call(t, op, "A", None)
    \/ \E t \in Threads, key \in ConcKeys, value \in Values : Call(t, "put", key, value)
    \/ \E t \in Threads : Acquire(t)
    \/ \E t \in Threads : Body(t)
    \/ \E t \in Threads : Insert(t)
    \/ \E t \in Threads : Release(t)

\* the calls of the threads under fair scheduling: MaxFairCalls calls in all
MaxFairCalls == 2

FairNext ==
    \/ /\ ncalls < MaxFairCalls
       /\ \/ \E t \in Threads, op \in {"get", "contains", "get_stats", "clear"} :
                 Call(t, op, "A", None)
          \/ \E t \in Threads, key \in ConcKeys : Call(t, "put", key, 50)
    \/ \E t \in Threads : Acquire(t)
    \/ \E t \in Threads : Body(t)
    \/ \E t \in Threads : Insert(t)
    \/ \E t \in Threads : Release(t)

\* a thread that can run runs: the steps inside the with-block and its exit
\* are taken once possible, and a thread waiting for a lock that is free
\* again and again gets it
Fairness ==
    \A t \in Threads :
        /\ SF_vars(Acquire(t))
        /\ WF_vars(Body(t))
        /\ WF_vars(Insert(t))
        /\ WF_vars(Release(t))

\* ------------------------------------------------------------------------
\* The engine's operations
\* ------------------------------------------------------------------------
NoReport == [policy |-> "None"]

NoRequest ==
    [called |-> FALSE, request |-> [client |-> "client_x", content_id |-> "A",
                                    size |-> 0, region |-> NoRegion],
     ret |-> 0, raised |-> FALSE, metrics |-> initialize_metrics,
     edge_servers |-> EmptyMap, requests_processed |-> <<>>]

NoRun == [ran |-> FALSE, given |-> <<>>, report |-> NoReport]

NoEnd == [metrics |-> initialize_metrics, requests_processed |-> <<>>]

\* CDNSimulation.__init__
EngineInit ==
    /\ topology \in Topologies
    /\ cache_policy \in Policies
    /\ cache_size \in 0..MaxCap
    /\ edge_servers = initialize_edge_servers(cache_policy, cache_size)
    /\ metrics = initialize_metrics
    /\ requests_processed = <<>>
    /\ client_edge_map = precompute_client_edge_mapping
    /\ pc = "idle"
    /\ given = <<>>
    /\ report = NoReport
    /\ lastreq = NoRequest
    /\ previous = NoRun
    /\ atend = NoEnd
    /\ again = NoReport

\* run_simulation, lines 135-137: reset, then the loop starts
RunSimulation ==
    /\ pc = "idle"
    /\ metrics' = initialize_metrics
    /\ requests_processed' = <<>>
    /\ pc' = "running"
    /\ UNCHANGED <<topology, cache_policy, cache_size, edge_servers, client_edge_map,
                   given, report, lastreq, previous, atend, again>>
    /\ UNCHANGED <<cacheVars, concVars, oracleVars, pairVars>>

\* run_simulation called once more on the engine, after a run that returned:
\* the same lines 135-137
RunSimulationAgain ==
    /\ pc = "done"
    /\ ~previous.ran
    /\ metrics' = initialize_metrics
    /\ requests_processed' = <<>>
    /\ pc' = "running"
    /\ previous' = [ran |-> TRUE, given |-> given, report |-> report]
    /\ given' = <<>>
    /\ lastreq' = NoRequest
    /\ again' = NoReport
    /\ UNCHANGED <<topology, cache_policy, cache_size, edge_servers, client_edge_map,
                   report, atend>>
    /\ UNCHANGED <<cacheVars, concVars, oracleVars, pairVars>>

\* get_metrics() called after run_simulation returned
GetMetrics ==
    /\ pc = "done"
    /\ again' = get_metrics(metrics, requests_processed, cache_policy, cache_size)
    /\ metrics' = get_metrics_effect(metrics)
    /\ UNCHANGED <<topology, cache_policy, cache_size, edge_servers, client_edge_map,
                   requests_processed, pc, given, report, lastreq, previous, atend>>
    /\ UNCHANGED <<cacheVars, concVars, oracleVars, pairVars>>

\* process_request, lines 109-110: the two get_latency calls of a miss read
\* and fill the topology's memo one after the other
miss_latency_ret(lc, client, edge_server_id, region) ==
    LET origin_server == find_origin_server(region)
        client_to_edge == get_latency_ret(lc, client, edge_server_id)
        lc1 == get_latency_memo(lc, client, edge_server_id)
        edge_to_origin == get_latency_ret(lc1, edge_server_id, origin_server)
    IN  client_to_edge + edge_to_origin + client_to_edge

miss_latency_memo(lc, client, edge_server_id, region) ==
    get_latency_memo(get_latency_memo(lc, client, edge_server_id),
                     edge_server_id, find_origin_server(region))

\* faulty variant: every routed request is served by the first edge server
request_edge_first_edge(cmap, request) ==
    IF request.client \in DOMAIN cmap THEN "edge_bos" ELSE NoEdge

\* process_request, line 74: the edge the request is routed to
request_edge(cmap, request) ==
    IF request.client \in DOMAIN cmap THEN cmap[request.client] ELSE NoEdge

\* the random draws process_request can make: those of the put of a miss
process_request_choices(es, cmap, request) ==
    LET edge_server_id == request_edge(cmap, request)
    IN  IF edge_server_id = NoEdge
        THEN {request.content_id}
        ELSE LET c0 == es[edge_server_id].cache
             IN  IF CM_contains(c0, request.content_id)
                    \/ CM_put_raises(c0, request.content_id)
                 THEN {request.content_id}
                 ELSE CM_put_choices(c0, request.content_id)

\* process_request, lines 66-129, on an engine's edge_servers (es), metrics (m),
\* requests_processed (rp) and client_edge_map (cmap) and on the topology's
\* latency_cache (lc): what the call leaves behind and returns; raised means
\* that the put of line 116 raised, which comes after the latency lookups
process_request(es, m, rp, cmap, lc, request, choice) ==
    LET client == request.client
        content_id == request.content_id
        content_size == request.size
        edge_server_id == request_edge(cmap, request)
    IN  IF edge_server_id = NoEdge
        THEN [edge_servers |-> es, metrics |-> metrics_penalty(m),
              requests_processed |-> rp, latency_cache |-> lc,
              ret |-> PenaltyLatency, raised |-> FALSE]
        ELSE LET c0 == es[edge_server_id].cache
                 m1 == metrics_load(m, edge_server_id)
                 e1 == [es EXCEPT ![edge_server_id].load = @ + 1]
             IN  IF CM_contains(c0, content_id)
                 THEN LET latency == get_latency_ret(lc, client, edge_server_id)
                      IN  [edge_servers |-> [e1 EXCEPT ![edge_server_id].cache =
                                                           CM_get(c0, content_id)],
                           metrics |-> metrics_hit(m1, content_id, content_size, latency),
                           requests_processed |-> Append(rp, request),
                           latency_cache |-> get_latency_memo(lc, client, edge_server_id),
                           ret |-> latency, raised |-> FALSE]
                 ELSE LET latency == miss_latency_ret(lc, client, edge_server_id,
                                                      request.region)
                          lc2 == miss_latency_memo(lc, client, edge_server_id,
                                                   request.region)
                      IN  IF CM_put_raises(c0, content_id)
                          THEN [edge_servers |-> e1, metrics |-> m1,
                                requests_processed |-> rp, latency_cache |-> lc2,
                                ret |-> 0, raised |-> TRUE]
                          ELSE [edge_servers |-> [e1 EXCEPT ![edge_server_id].cache =
                                        CM_put(c0, content_id, content_size, choice)],
                                metrics |-> metrics_miss(m1, content_id, latency),
                                requests_processed |-> Append(rp, request),
                                latency_cache |-> lc2,
                                ret |-> latency, raised |-> FALSE]

\* process_request(request), called by the loop of run_simulation; an
\* exception raised by the cache's put leaves process_request and
\* run_simulation at once
ProcessRequest(request) ==
    /\ pc = "running"
    /\ Len(given) < MaxRequests
    /\ given' = Append(given, request)
    /\ \E choice \in process_request_choices(edge_servers, client_edge_map, request) :
           LET r == process_request(edge_servers, metrics, requests_processed,
                                    client_edge_map, latency_cache, request, choice)
           IN  /\ edge_servers' = r.edge_servers
               /\ metrics' = r.metrics
               /\ requests_processed' = r.requests_processed
               /\ latency_cache' = r.latency_cache
               /\ pc' = IF r.raised THEN "aborted" ELSE pc
               /\ lastreq' = [called |-> TRUE, request |-> request, ret |-> r.ret,
                              raised |-> r.raised, metrics |-> metrics,
                              edge_servers |-> edge_servers,
                              requests_processed |-> requests_processed]
    /\ UNCHANGED <<topology, cache_policy, cache_size, client_edge_map, report,
                   previous, atend, again>>
    /\ UNCHANGED <<cacheVars, concVars, returned, asked, nasked, pairVars>>

\* run_simulation, line 152: the request list is exhausted, the report is
\* what get_metrics() returns
FinishSimulation ==
    /\ pc = "running"
    /\ report' = get_metrics(metrics, requests_processed, cache_policy, cache_size)
    /\ metrics' = get_metrics_effect(metrics)
    /\ pc' = "done"
    /\ atend' = [metrics |-> metrics, requests_processed |-> requests_processed]
    /\ UNCHANGED <<topology, cache_policy, cache_size, edge_servers, client_edge_map,
                   requests_processed, given, lastreq, previous, again>>
    /\ UNCHANGED <<cacheVars, concVars, oracleVars, pairVars>>

EngineNext ==
    \/ RunSimulation
    \/ \E request \in RequestSet : ProcessRequest(request)
    \/ FinishSimulation

\* the requests of the two-run scenarios: those without a region hint
RerunRequests == {request \in RequestSet : request.region = NoRegion}

\* two runs on one engine, and get_metrics() calls after each; the requests of
\* both runs together are bounded by MaxRequests
RerunNext ==
    \/ RunSimulation
    \/ \E request \in RerunRequests :
           /\ Len(previous.given) + Len(given) < MaxRequests
           /\ ProcessRequest(request)
    \/ FinishSimulation
    \/ RunSimulationAgain
    \/ GetMetrics

\* ------------------------------------------------------------------------
\* The topology's operations
\* ------------------------------------------------------------------------
MaxAsked == 2

\* the pairs get_latency is asked about: client_0 with itself, with an edge
\* server, with an origin, and with client_x, an id that is no node, in
\* either order
AskNodes == {"client_0", "client_x", "edge_bos", "edge_tor", "origin_ny"}
AskPairs == {p \in AskNodes \X AskNodes : "client_0" \in {p[1], p[2]}}

NoAsk == [fn |-> "none", node1 |-> "client_x", node2 |-> "client_x",
          region |-> NoRegion, ret |-> 0, name |-> NoEdge]

OracleInit ==
    /\ latency_cache = EmptyMap
    /\ returned = EmptyMap
    /\ asked = NoAsk
    /\ nasked = 0

OracleParked == OracleInit

\* NetworkTopology.get_latency(node1, node2)
GetLatency(node1, node2) ==
    /\ nasked < MaxAsked
    /\ nasked' = nasked + 1
    /\ LET ret == get_latency_ret(latency_cache, node1, node2)
       IN  /\ asked' = [NoAsk EXCEPT !.fn = "get_latency", !.node1 = node1,
                                     !.node2 = node2, !.ret = ret]
           /\ returned' = MapSet(returned, <<node1, node2>>,
                                 (IF <<node1, node2>> \in DOMAIN returned
                                  THEN returned[<<node1, node2>>] ELSE {}) \cup {ret})
    /\ latency_cache' = get_latency_memo(latency_cache, node1, node2)
    /\ UNCHANGED <<cacheVars, engineVars, concVars, pairVars>>

\* NetworkTopology.find_nearest_edge_server(client_node)
FindNearestEdgeServer(client_node) ==
    /\ nasked < MaxAsked
    /\ nasked' = nasked + 1
    /\ asked' = [NoAsk EXCEPT !.fn = "find_nearest_edge_server", !.node1 = client_node,
                     !.name = find_nearest_edge_server_ret(latency_cache, client_node)]
    /\ latency_cache' = find_nearest_edge_server_memo(latency_cache, client_node)
    /\ UNCHANGED returned
    /\ UNCHANGED <<cacheVars, engineVars, concVars, pairVars>>

\* NetworkTopology.find_origin_server(client_region=region)
FindOriginServer(region) ==
    /\ nasked < MaxAsked
    /\ nasked' = nasked + 1
    /\ asked' = [NoAsk EXCEPT !.fn = "find_origin_server", !.region = region,
                              !.name = find_origin_server(region)]
    /\ UNCHANGED <<latency_cache, returned>>
    /\ UNCHANGED <<cacheVars, engineVars, concVars, pairVars>>

OracleNext ==
    \/ \E p \in AskPairs : GetLatency(p[1], p[2])
    \/ \E client_node \in ClientNodes : FindNearestEdgeServer(client_node)
    \/ \E region \in Regions : FindOriginServer(region)

\* ------------------------------------------------------------------------
\* Several engines on one topology (main.py, lines 60-69)
\* ------------------------------------------------------------------------
EngineIds == {"e1", "e2"}

\* CDNSimulation.__init__: the fields of a new engine, with the requests it
\* has been given and their outcomes (none yet)
new_engine(pol, size) ==
    [cache_policy |-> pol, cache_size |-> size,
     edge_servers |-> initialize_edge_servers(pol, size),
     metrics |-> initialize_metrics,
     requests_processed |-> <<>>,
     client_edge_map |-> precompute_client_edge_mapping,
     given |-> <<>>, outcomes |-> <<>>]

\* what a process_request call was: a hit, a miss, the penalty of a client
\* without edge server, or a call left by an exception
outcome_kind(m, r) ==
    IF r.raised THEN "raised"
    ELSE IF r.metrics.cache_hits > m.cache_hits THEN "hit"
    ELSE IF r.metrics.cache_misses > m.cache_misses THEN "miss"
    ELSE "penalty"

\* engine e processes the request on a topology whose memo is lc
engine_step(e, lc, request, choice) ==
    LET r == process_request(e.edge_servers, e.metrics, e.requests_processed,
                             e.client_edge_map, lc, request, choice)
    IN  [engine |-> [e EXCEPT !.edge_servers = r.edge_servers,
                              !.metrics = r.metrics,
                              !.requests_processed = r.requests_processed,
                              !.given = Append(@, request),
                              !.outcomes = Append(@, [latency |-> r.ret,
                                                      kind |-> outcome_kind(e.metrics, r)])],
         latency_cache |-> r.latency_cache]

engine_choices(e, request) ==
    process_request_choices(e.edge_servers, e.client_edge_map, request)

engine_aborted(e) ==
    e.outcomes # <<>> /\ e.outcomes[Len(e.outcomes)].kind = "raised"

\* run_simulation, line 152, for engine e
engine_report(e) ==
    get_metrics(e.metrics, e.requests_processed, e.cache_policy, e.cache_size)

PairTopologies == {"realistic", "split"}

\* the engines of PairSpec and TwinSpec are built on a topology of
\* PairTopologies; the single engine of the other specifications is idle
PairEngineParked ==
    /\ topology \in PairTopologies
    /\ cache_policy = "LRU"
    /\ cache_size = 1
    /\ edge_servers = EmptyMap
    /\ metrics = initialize_metrics
    /\ requests_processed = <<>>
    /\ client_edge_map = EmptyMap
    /\ pc = "idle"
    /\ given = <<>>
    /\ report = NoReport
    /\ lastreq = NoRequest
    /\ previous = NoRun
    /\ atend = NoEnd
    /\ again = NoReport

\* --- two engines, each given its own requests, their calls interleaved ---
MaxPairRequests == 3
PairCacheSize == 1
PairSecondPolicies == {"LFU", "RANDOM"}
PairRequests == {request \in RerunRequests : request.client \in ClientNodes}

PairInit ==
    /\ \E p1 \in Policies, p2 \in PairSecondPolicies :
           engines = [i \in EngineIds |->
                          new_engine(IF i = "e1" THEN p1 ELSE p2, PairCacheSize)]
    /\ alone = [i \in EngineIds |-> [engine |-> engines[i], latency_cache |-> EmptyMap]]

PairRequestsMade == Len(engines["e1"].given) + Len(engines["e2"].given)

\* engine i processes its next request; the history copy does the same on
\* its own topology, with the same random draw
PairProcessRequest(i, request) ==
    /\ PairRequestsMade < MaxPairRequests
    /\ ~engine_aborted(engines[i])
    /\ \E choice \in engine_choices(engines[i], request) :
           LET r == engine_step(engines[i], latency_cache, request, choice)
               a == engine_step(alone[i].engine, alone[i].latency_cache, request, choice)
           IN  /\ engines' = [engines EXCEPT ![i] = r.engine]
               /\ latency_cache' = r.latency_cache
               /\ alone' = [alone EXCEPT ![i] = a]
    /\ UNCHANGED <<cacheVars, engineVars, concVars, returned, asked, nasked>>

PairNext == \E i \in EngineIds, request \in PairRequests : PairProcessRequest(i, request)

\* --- two engines of one policy and capacity given the same requests ---
MaxTwinRequests == 4
TwinContents == {"A", "B", "C"}
TwinRequest(cl, ct) ==
    [client |-> cl, content_id |-> ct, size |-> ContentSize(ct), region |-> NoRegion]
TwinRequests ==
    {TwinRequest("client_0", ct) : ct \in TwinContents}
        \cup {TwinRequest(cl, "A") : cl \in ClientNodes}

TwinInit ==
    /\ \E pol \in Policies, size \in 1..MaxCap :
           engines = [i \in EngineIds |-> new_engine(pol, size)]
    /\ alone = EmptyMap

\* the next request of the sequence goes to both engines, first e1 then e2;
\* each makes its own random draw
TwinProcessRequest(request) ==
    /\ Len(engines["e1"].given) < MaxTwinRequests
    /\ ~engine_aborted(engines["e1"])
    /\ ~engine_aborted(engines["e2"])
    /\ \E c1 \in engine_choices(engines["e1"], request),
          c2 \in engine_choices(engines["e2"], request) :
           LET r1 == engine_step(engines["e1"], latency_cache, request, c1)
               r2 == engine_step(engines["e2"], r1.latency_cache, request, c2)
           IN  /\ engines' = [engines EXCEPT !["e1"] = r1.engine, !["e2"] = r2.engine]
               /\ latency_cache' = r2.latency_cache
    /\ UNCHANGED <<cacheVars, engineVars, concVars, returned, asked, nasked, alone>>

TwinNext == \E request \in TwinRequests : TwinProcessRequest(request)

\* ------------------------------------------------------------------------
\* Threads calling process_request on one engine.  The calls of the edge's
\* CacheManager are the only steps taken under a lock: a call of
\* process_request is the check of lines 68-91 (routing, load, contains),
\* then, at any later time, the branch the check chose (lines 92-129: the
\* get of a hit, or the put of a miss, and the counting).
\* ------------------------------------------------------------------------
MaxRaceRequests == 3
RaceTopologies == {"single", "realistic"}

NoWorker ==
    [pc |-> "idle", request |-> NoRequest.request, hit |-> FALSE, found |-> FALSE,
     policy_miss |-> FALSE, raised |-> FALSE]

RaceEngineInit ==
    /\ topology \in RaceTopologies
    /\ cache_policy \in Policies
    /\ cache_size \in 1..MaxCap
    /\ edge_servers = initialize_edge_servers(cache_policy, cache_size)
    /\ metrics = initialize_metrics
    /\ requests_processed = <<>>
    /\ client_edge_map = precompute_client_edge_mapping
    /\ pc = "running"
    /\ given = <<>>
    /\ report = NoReport
    /\ lastreq = NoRequest
    /\ previous = NoRun
    /\ atend = NoEnd
    /\ again = NoReport

RaceInit ==
    /\ lock = Free
    /\ thr = [t \in Threads |-> NoWorker]
    /\ committed = LRUCache(0)
    /\ ncalls = 0

\* process_request, lines 68-91, in thread t: the request is routed, the
\* loads are counted and the edge's cache is asked whether it contains the
\* content; a client without edge server is charged the penalty and the call
\* returns
RaceCheck(t, request) ==
    /\ thr[t].pc \in {"idle", "done"}
    /\ ncalls < MaxRaceRequests
    /\ ncalls' = ncalls + 1
    /\ given' = Append(given, request)
    /\ LET edge_server_id == request_edge(client_edge_map, request)
       IN  IF edge_server_id = NoEdge
           THEN /\ metrics' = metrics_penalty(metrics)
                /\ thr' = [thr EXCEPT ![t] = [NoWorker EXCEPT !.pc = "done",
                                                              !.request = request]]
                /\ UNCHANGED edge_servers
           ELSE /\ metrics' = metrics_load(metrics, edge_server_id)
                /\ edge_servers' = [edge_servers EXCEPT ![edge_server_id].load = @ + 1]
                /\ thr' = [thr EXCEPT ![t] =
                       [NoWorker EXCEPT !.pc = "checked", !.request = request,
                                        !.hit = CM_contains(edge_servers[edge_server_id].cache,
                                                            request.content_id)]]
    /\ UNCHANGED <<topology, cache_policy, cache_size, client_edge_map, requests_processed,
                   pc, report, lastreq, previous, atend, again>>
    /\ UNCHANGED <<lock, committed>>
    /\ UNCHANGED <<cacheVars, oracleVars, pairVars>>

\* process_request, lines 92-129, in thread t: the branch chosen by the
\* check, on the edge's cache as it is now
RaceServe(t) ==
    /\ thr[t].pc = "checked"
    /\ LET request == thr[t].request
           client == request.client
           content_id == request.content_id
           edge_server_id == request_edge(client_edge_map, request)
           c == edge_servers[edge_server_id].cache
       IN  IF thr[t].hit
           THEN LET latency == get_latency_ret(latency_cache, client, edge_server_id)
                IN  /\ latency_cache' = get_latency_memo(latency_cache, client, edge_server_id)
                    /\ edge_servers' = [edge_servers EXCEPT ![edge_server_id].cache =
                                                                CM_get(c, content_id)]
                    /\ metrics' = metrics_hit(metrics, content_id, request.size, latency)
                    /\ requests_processed' = Append(requests_processed, request)
                    /\ thr' = [thr EXCEPT ![t].pc = "done",
                                          ![t].found = CM_get_ret(c, content_id) # None,
                                          ![t].policy_miss =
                                              CM_get(c, content_id).misses > c.misses]
           ELSE LET latency == miss_latency_ret(latency_cache, client, edge_server_id,
                                                request.region)
                IN  /\ latency_cache' = miss_latency_memo(latency_cache, client,
                                                          edge_server_id, request.region)
                    /\ IF CM_put_raises(c, content_id)
                       THEN /\ thr' = [thr EXCEPT ![t].pc = "done", ![t].raised = TRUE]
                            /\ UNCHANGED <<edge_servers, metrics, requests_processed>>
                       ELSE \E choice \in CM_put_choices(c, content_id) :
                            /\ edge_servers' = [edge_servers EXCEPT ![edge_server_id].cache =
                                   CM_put(c, content_id, request.size, choice)]
                            /\ metrics' = metrics_miss(metrics, content_id, latency)
                            /\ requests_processed' = Append(requests_processed, request)
                            /\ thr' = [thr EXCEPT ![t].pc = "done"]
    /\ UNCHANGED <<topology, cache_policy, cache_size, client_edge_map, given,
                   pc, report, lastreq, previous, atend, again>>
    /\ UNCHANGED <<lock, committed, ncalls>>
    /\ UNCHANGED <<cacheVars, returned, asked, nasked, pairVars>>

RaceNext ==
    \/ \E t \in Threads, request \in PairRequests : RaceCheck(t, request)
    \/ \E t \in Threads : RaceServe(t)

\* ------------------------------------------------------------------------
\* Specifications
\* ------------------------------------------------------------------------
\* Spec: one CacheManager under any sequence of calls; the engine stays as
\* constructed
EngineParked ==
    /\ topology = "realistic"
    /\ cache_policy = "LRU"
    /\ cache_size = 1
    /\ edge_servers = initialize_edge_servers("LRU", 1)
    /\ metrics = initialize_metrics
    /\ requests_processed = <<>>
    /\ client_edge_map = precompute_client_edge_mapping
    /\ pc = "idle"
    /\ given = <<>>
    /\ report = NoReport
    /\ lastreq = NoRequest
    /\ previous = NoRun
    /\ atend = NoEnd
    /\ again = NoReport

ConcParked ==
    /\ lock = Free
    /\ thr = [t \in Threads |-> NoThread]
    /\ committed = LRUCache(0)
    /\ ncalls = 0

PairParked ==
    /\ engines = EmptyMap
    /\ alone = EmptyMap

Init == CacheInit /\ EngineParked /\ ConcParked /\ OracleParked /\ PairParked

Spec == Init /\ [][CacheNext]_vars

\* EngineSpec: one engine running one simulation; the stand-alone manager
\* stays as constructed
CacheParked ==
    /\ policy = "LRU"
    /\ policy_name = Spelled("LRU")
    /\ capacity = 1
    /\ cache = CM_create_cache("LRU", 1)
    /\ last = NoCall
    /\ nops = 0
    /\ lastAccess = [k \in Keys |-> 0]
    /\ insertedAt = [k \in Keys |-> 0]

EngineSpecInit == EngineInit /\ CacheParked /\ ConcParked /\ OracleParked /\ PairParked

EngineSpec == EngineSpecInit /\ [][EngineNext]_vars

\* one engine, run twice
RerunSpec == EngineSpecInit /\ [][RerunNext]_vars

\* one CacheManager, its four methods and clear, called one after the other
ClearSpec == Init /\ [][ClearNext]_vars

\* one CacheManager called by the threads
ConcSpecInit == CacheInit /\ EngineParked /\ ConcInit /\ OracleParked /\ PairParked

ConcSpec == ConcSpecInit /\ [][ConcNext]_vars

\* get_metrics as a function of the latency samples: an engine whose loop has
\* collected the hit samples hs and the miss samples ms (no penalty request),
\* about to return its report.  Only the entries of the metrics that the
\* latency statistics read are given.
MaxSamples == 2
SampleValues == {5, 20, 75}

SampleLists == UNION { [1..n -> SampleValues] : n \in 0..MaxSamples }

\* ten samples which sort to 5, 10, 15, 20, 20, 20, 20, 20, 20, 20
TenHits == <<20, 5, 20, 10>>
TenMisses == <<20, 15, 20, 20, 20, 20>>

metrics_of_samples(hs, ms) ==
    [initialize_metrics EXCEPT !.hit_latencies = hs,
                               !.miss_latencies = ms,
                               !.cache_hits = Len(hs),
                               !.cache_misses = Len(ms),
                               !.origin_requests = Len(ms),
                               !.total_requests = Len(hs) + Len(ms),
                               !.total_latency = SeqSum(hs) + SeqSum(ms)]

SampleInit ==
    /\ \E hs \in SampleLists \cup {TenHits}, ms \in SampleLists \cup {TenMisses} :
           metrics = metrics_of_samples(hs, ms)
    /\ topology = "realistic"
    /\ cache_policy = "LRU"
    /\ cache_size = 1
    /\ edge_servers = initialize_edge_servers("LRU", 1)
    /\ requests_processed = <<>>
    /\ client_edge_map = precompute_client_edge_mapping
    /\ pc = "running"
    /\ given = <<>>
    /\ report = NoReport
    /\ lastreq = NoRequest
    /\ previous = NoRun
    /\ atend = NoEnd
    /\ again = NoReport

SampleNext ==
    \/ FinishSimulation
    \/ GetMetrics

SampleSpecInit == SampleInit /\ CacheParked /\ ConcParked /\ OracleParked /\ PairParked

SampleSpec == SampleSpecInit /\ [][SampleNext]_vars

\* one topology, its three operations called one after the other; the engine
\* variables other than the graph are not used
OracleEngineParked ==
    /\ topology \in OracleTopologies
    /\ cache_policy = "LRU"
    /\ cache_size = 1
    /\ edge_servers = EmptyMap
    /\ metrics = initialize_metrics
    /\ requests_processed = <<>>
    /\ client_edge_map = EmptyMap
    /\ pc = "idle"
    /\ given = <<>>
    /\ report = NoReport
    /\ lastreq = NoRequest
    /\ previous = NoRun
    /\ atend = NoEnd
    /\ again = NoReport

OracleSpecInit == OracleEngineParked /\ CacheParked /\ ConcParked /\ OracleInit /\ PairParked

OracleSpec == OracleSpecInit /\ [][OracleNext]_vars

\* NameSpec: one CacheManager constructed from a policy name in any spelling,
\* under any sequence of calls
NameSpecInit == NameInit /\ EngineParked /\ ConcParked /\ OracleParked /\ PairParked

NameSpec == NameSpecInit /\ [][NameNext]_vars

\* FairSpec: the threads of ConcSpec under fair scheduling
FairSpec == ConcSpecInit /\ [][FairNext]_vars /\ Fairness

\* RaceSpec: two threads calling process_request on one engine
RaceSpecInit == RaceEngineInit /\ CacheParked /\ RaceInit /\ OracleParked /\ PairParked

RaceSpec == RaceSpecInit /\ [][RaceNext]_vars

\* PairSpec: two engines on one topology, their process_request calls
\* interleaved in any order
PairSpecInit == PairEngineParked /\ CacheParked /\ ConcParked /\ OracleParked /\ PairInit

PairSpec == PairSpecInit /\ [][PairNext]_vars

\* TwinSpec: two engines of one policy and capacity on one topology, given
\* the same request sequence
TwinSpecInit == PairEngineParked /\ CacheParked /\ ConcParked /\ OracleParked /\ TwinInit

TwinSpec == TwinSpecInit /\ [][TwinNext]_vars

\* ------------------------------------------------------------------------
\* Properties of the policies (checked under Spec)
\* ------------------------------------------------------------------------
\* the last call was a put of a key that was not stored, and it returned
PutNew == last.op = "put" /\ ~last.raised /\ last.key \notin StoredKeys(last.pre)
\* ... into a cache that was full
PutNewFull == PutNew /\ capacity >= 1 /\ CM_size(last.pre) >= capacity
\* the last call was a get of a stored key / a put of a stored key
GetHit == last.op = "get" /\ last.key \in StoredKeys(last.pre)
PutUpdate == last.op = "put" /\ last.key \in StoredKeys(last.pre)
\* the keys the last call removed
Evicted == StoredKeys(last.pre) \ StoredKeys(cache)

\* C1: for every policy with capacity C >= 1, after any sequence of get, put
\* and contains calls the number of stored entries is at most C and no key is
\* stored twice.
C1_SizeAtMostCapacity ==
    capacity >= 1 =>
        /\ cache.capacity = capacity
        /\ CM_size(cache) <= capacity
        /\ CM_size(cache) = Cardinality(StoredKeys(cache))
        /\ NoDuplicateKey(cache)

\* C1 witness: a put of a new key into a full LRU cache of capacity 2 has returned
C1_Witness ==
    /\ policy = "LRU" /\ capacity = 2
    /\ PutNewFull
    /\ CM_size(cache) = 2

\* C2 (as claimed): with capacity 0 a put returns without raising and stores
\* nothing, and a later contains or get reports the key absent.
C2_ZeroCapacityPutIsNoOp ==
    capacity = 0 =>
        /\ last.op = "put" => ~last.raised /\ cache = last.pre
        /\ StoredKeys(cache) = {}
        /\ last.op = "contains" => ~last.found
        /\ last.op = "get" => last.ret = None

\* C4: LRU: a put of a new key into a full cache evicts exactly the stored key
\* whose latest access (get hit, or put that inserted or updated it) is the
\* oldest; capacity 2: put A, put B, get A, put C evicts B and keeps A.
C4_LRUEvictsLeastRecent ==
    (policy = "LRU" /\ PutNewFull) =>
        \E v \in StoredKeys(last.pre) :
            /\ Evicted = {v}
            /\ \A k \in StoredKeys(last.pre) : lastAccess[v] <= lastAccess[k]

\* C4 witness: capacity 2, after put A, put B, get A, put C: B is gone, A stays
C4_Witness ==
    /\ policy = "LRU" /\ capacity = 2 /\ nops = 4
    /\ insertedAt["A"] = 1 /\ insertedAt["B"] = 2 /\ lastAccess["A"] = 3
    /\ last.op = "put" /\ last.key = "C"
    /\ StoredKeys(cache) = {"A", "C"}

\* C5: LFU: a key's frequency is 1 when it is inserted and grows by 1 on every
\* get hit and every put-update (no other key's frequency changes); a put of a
\* new key into a full cache evicts a key of minimum frequency, and among
\* those the one that entered its frequency bucket earliest (a key enters a
\* bucket exactly when it is accessed, so that is the oldest latest access).
C5_LFUFrequencyAndEviction ==
    policy = "LFU" =>
        /\ PutNew /\ capacity >= 1 => StoredFreq(cache, last.key) = 1
        /\ GetHit \/ PutUpdate =>
               StoredFreq(cache, last.key) = StoredFreq(last.pre, last.key) + 1
        /\ \A k \in (StoredKeys(cache) \cap StoredKeys(last.pre)) \ {last.key} :
               StoredFreq(cache, k) = StoredFreq(last.pre, k)
        /\ PutNewFull =>
               \E v \in StoredKeys(last.pre) :
                   /\ Evicted = {v}
                   /\ \A k \in StoredKeys(last.pre) :
                          \/ StoredFreq(last.pre, v) < StoredFreq(last.pre, k)
                          \/ /\ StoredFreq(last.pre, v) = StoredFreq(last.pre, k)
                             /\ lastAccess[v] <= lastAccess[k]

\* C5 witness: capacity 2, after put A, put B, get B, get A, put C: A and B
\* both had frequency 2, and B (first into bucket 2, though inserted after A)
\* is the one evicted
C5_Witness ==
    /\ policy = "LFU" /\ capacity = 2 /\ PutNewFull
    /\ last.key = "C"
    /\ StoredFreq(last.pre, "A") = 2 /\ StoredFreq(last.pre, "B") = 2
    /\ insertedAt["A"] < insertedAt["B"] /\ lastAccess["B"] < lastAccess["A"]
    /\ StoredKeys(cache) = {"A", "C"}

\* C6: HYBRID: every get hit and every put-update increments the key's
\* frequency and moves it to the most-recently-used position (the order of the
\* other keys is kept); a put of a new key into a full cache evicts the least
\* recently used key among those of minimum frequency (capacity 2: put A,
\* put B, put C evicts A).
C6_HybridPromotionAndEviction ==
    policy = "HYBRID" =>
        /\ GetHit \/ PutUpdate =>
               /\ StoredFreq(cache, last.key) = StoredFreq(last.pre, last.key) + 1
               /\ cache.recency[Len(cache.recency)] = last.key
               /\ KS_delete(cache.recency, last.key) = KS_delete(last.pre.recency, last.key)
        /\ PutNewFull =>
               \E v \in StoredKeys(last.pre) :
                   /\ Evicted = {v}
                   /\ \A k \in StoredKeys(last.pre) :
                          \/ StoredFreq(last.pre, v) < StoredFreq(last.pre, k)
                          \/ /\ StoredFreq(last.pre, v) = StoredFreq(last.pre, k)
                             /\ lastAccess[v] <= lastAccess[k]
        /\ (capacity = 2 /\ nops = 3 /\ PutNewFull /\ last.key = "C"
              /\ insertedAt["A"] = 1 /\ insertedAt["B"] = 2) => Evicted = {"A"}

\* C6 witness: capacity 2, after put A, put B, get B, get A, put C: equal
\* frequencies, B is the less recently used and is evicted
C6_Witness ==
    /\ policy = "HYBRID" /\ capacity = 2 /\ PutNewFull
    /\ last.key = "C"
    /\ StoredFreq(last.pre, "A") = 2 /\ StoredFreq(last.pre, "B") = 2
    /\ insertedAt["A"] < insertedAt["B"] /\ lastAccess["B"] < lastAccess["A"]
    /\ StoredKeys(cache) = {"A", "C"}

\* C7: FIFO: a put of a new key into a full cache evicts the stored key that
\* was inserted earliest; a get hit or a put of a stored key changes neither
\* the stored keys nor their order, so the next victim stays the same.
C7_FIFOEvictsEarliestInserted ==
    policy = "FIFO" =>
        /\ PutNewFull =>
               \E v \in StoredKeys(last.pre) :
                   /\ Evicted = {v}
                   /\ \A k \in StoredKeys(last.pre) : insertedAt[v] <= insertedAt[k]
        /\ GetHit \/ PutUpdate =>
               [i \in 1..Len(cache.cache) |-> cache.cache[i][1]] =
               [i \in 1..Len(last.pre.cache) |-> last.pre.cache[i][1]]

\* C7 witness: capacity 2, after put A, put B, get A, put C: A was accessed
\* after B and is evicted all the same
C7_Witness ==
    /\ policy = "FIFO" /\ capacity = 2 /\ PutNewFull
    /\ last.key = "C"
    /\ insertedAt["A"] < insertedAt["B"] /\ lastAccess["B"] < lastAccess["A"]
    /\ StoredKeys(cache) = {"B", "C"}

\* C8: for every policy with capacity C >= 1, a put of a key that is not
\* stored returns, removes no entry when size < C and exactly one previously
\* stored entry when size = C, and the new key is stored afterwards.
C8_PutNewEvictsAtMostOne ==
    (capacity >= 1 /\ last.op = "put" /\ last.key \notin StoredKeys(last.pre)) =>
        /\ ~last.raised
        /\ last.key \in StoredKeys(cache)
        /\ CM_size(last.pre) < capacity =>
               StoredKeys(cache) = StoredKeys(last.pre) \cup {last.key}
        /\ CM_size(last.pre) = capacity =>
               \E v \in StoredKeys(last.pre) :
                   StoredKeys(cache) = (StoredKeys(last.pre) \ {v}) \cup {last.key}
        /\ CM_size(last.pre) <= capacity

\* C8 witness: a full RANDOM cache of capacity 2 evicted its later-inserted key
C8_Witness ==
    /\ policy = "RANDOM" /\ capacity = 2 /\ PutNewFull
    /\ last.key = "C"
    /\ insertedAt["A"] < insertedAt["B"]
    /\ StoredKeys(cache) = {"A", "C"}

\* C9: contains(key) changes nothing: entries, counters and the policy's
\* recency, frequency and insertion-order fields are as before the call, and
\* it answers whether the key is stored.
C9_ContainsChangesNothing ==
    last.op = "contains" =>
        /\ cache = last.pre
        /\ last.found = (last.key \in StoredKeys(last.pre))

\* C9 witness: contains found the key that a full LRU cache would evict next
C9_Witness ==
    /\ policy = "LRU" /\ capacity = 2 /\ CM_size(cache) = 2
    /\ last.op = "contains" /\ last.found
    /\ cache.cache[1][1] = last.key

\* C10: get(key) on a stored key returns its stored value, adds 1 to hits and
\* nothing to misses; on an absent key it returns None, adds 1 to misses and
\* nothing to hits, and leaves the stored entries unchanged.
C10_GetCountsAndReturns ==
    last.op = "get" =>
        IF last.key \in StoredKeys(last.pre)
        THEN /\ last.ret = StoredValue(last.pre, last.key)
             /\ last.ret \in Values
             /\ cache.hits = last.pre.hits + 1
             /\ cache.misses = last.pre.misses
        ELSE /\ last.ret = None
             /\ cache.misses = last.pre.misses + 1
             /\ cache.hits = last.pre.hits
             /\ StoredMap(cache) = StoredMap(last.pre)

\* C10 witness: an LFU get missed on a non-empty cache that has hit before
C10_Witness ==
    /\ policy = "LFU"
    /\ last.op = "get" /\ last.ret = None
    /\ StoredKeys(cache) # {} /\ cache.hits >= 1

\* ------------------------------------------------------------------------
\* Properties of the engine (checked under EngineSpec)
\* ------------------------------------------------------------------------
\* the requests given so far whose client has an edge server
RECURSIVE Routable(_)
Routable(reqs) ==
    IF reqs = <<>> THEN 0
    ELSE (IF Head(reqs).client \in DOMAIN client_edge_map
             /\ client_edge_map[Head(reqs).client] # NoEdge THEN 1 ELSE 0)
         + Routable(Tail(reqs))

\* C3 (as claimed): with cache_size 0 the run processes every request (it is
\* never left by an exception), counts every routable request as a miss, and
\* reports hit_ratio 0.
C3_ZeroCacheRunAllMisses ==
    cache_size = 0 =>
        /\ pc # "aborted"
        /\ pc \in {"running", "done"} =>
               /\ metrics.cache_hits = 0
               /\ metrics.cache_misses = Routable(given)
        /\ pc = "done" => report.hit_ratio.num = 0

\* C11 (as claimed): for every policy, put(key, v2) on a stored key replaces
\* its value, so that the get that follows returns v2.
C11_PutReplacesValue ==
    PutUpdate =>
        /\ StoredValue(cache, last.key) = last.value
        /\ CM_get_ret(cache, last.key) = last.value

\* ------------------------------------------------------------------------
\* Properties of the facade (checked under ClearSpec and ConcSpec)
\* ------------------------------------------------------------------------
\* C12: after clear() the facade has no entry, hits = 0 and misses = 0, and
\* the policy kind and the capacity it had before the call.
C12_ClearEmptiesAndKeepsKind ==
    last.op = "clear" =>
        /\ StoredKeys(cache) = {}
        /\ CM_get_stats(cache).size = 0
        /\ CM_get_stats(cache).hits = 0
        /\ CM_get_stats(cache).misses = 0
        /\ cache.class = last.pre.class
        /\ cache.class = CM_create_cache(policy, capacity).class
        /\ CM_get_stats(cache).capacity = CM_get_stats(last.pre).capacity
        /\ cache.capacity = capacity

\* a HYBRID facade holding an entry, with a hit and a miss counted, was cleared
C12_Witness ==
    /\ last.op = "clear"
    /\ last.pre.class = "HybridCache"
    /\ StoredKeys(last.pre) # {}
    /\ last.pre.hits > 0
    /\ last.pre.misses > 0

\* a thread has read the policy object in its call
Observed(t) == thr[t].pc \in {"mid", "out", "returned"}

\* C13: calls of several threads take effect atomically: what a call reads is
\* the policy object left by the complete calls before it in lock order (never
\* one with an eviction done and its insertion missing, never one above
\* capacity), what it returns is what it returns on that object, and whenever
\* no call is in progress the policy object is the one those complete calls
\* produce one after the other.
C13_CallsTakeEffectAtomically ==
    /\ \A t \in Threads :
           Observed(t) =>
               /\ ~thr[t].sawmid
               /\ thr[t].pre = thr[t].base
               /\ CM_size(thr[t].pre) <= capacity
               /\ thr[t].pc # "mid" /\ ~thr[t].raised =>
                      thr[t].ret = CallReturn(thr[t], thr[t].base)
    /\ CM_size(cache) <= capacity
    /\ lock = Free => cache = committed

\* a thread is between the eviction and the insertion of its put while the
\* other thread's get is waiting for the lock
C13_Witness ==
    \E t \in Threads, u \in Threads :
        /\ t # u
        /\ thr[t].pc = "mid"
        /\ CM_size(cache) < capacity
        /\ thr[u].pc = "waiting"
        /\ thr[u].op = "get"
        /\ thr[u].key \in StoredKeys(thr[t].pre) \ StoredKeys(cache)

\* ------------------------------------------------------------------------
\* Properties of the engine's runs (checked under RerunSpec)
\* ------------------------------------------------------------------------
\* the loop of a run has just been entered
RunStarted == pc = "running" /\ given = <<>>

\* C14 (as claimed): every run_simulation call starts from empty edge caches,
\* also the second one on an engine; and for the policies that draw nothing,
\* a second run of the same requests reports the hits and misses of the first.
C14_EveryRunStartsWithEmptyCaches ==
    /\ RunStarted =>
           \A e \in DOMAIN edge_servers : StoredKeys(edge_servers[e].cache) = {}
    /\ (previous.ran /\ pc = "done" /\ given = previous.given
            /\ cache_policy # "RANDOM") =>
           /\ report.cache_hits = previous.report.cache_hits
           /\ report.cache_misses = previous.report.cache_misses

\* C15: when a run starts, every counter of the metrics is 0, the per-edge
\* and per-content counts and both sample lists are empty and no request is
\* recorded as processed; and get_metrics leaves metrics and processed
\* requests as they were when the loop ended, so that a second call returns
\* the report of the first.
C15_MetricsResetAndReadOnly ==
    /\ RunStarted =>
           /\ metrics.total_requests = 0
           /\ metrics.cache_hits = 0
           /\ metrics.cache_misses = 0
           /\ metrics.origin_requests = 0
           /\ metrics.bandwidth_saved = 0
           /\ metrics.total_latency = 0
           /\ DOMAIN metrics.server_loads = {}
           /\ DOMAIN metrics.content_served = {}
           /\ metrics.hit_latencies = <<>>
           /\ metrics.miss_latencies = <<>>
           /\ requests_processed = <<>>
    /\ pc = "done" =>
           /\ metrics = atend.metrics
           /\ requests_processed = atend.requests_processed
           /\ report = get_metrics(atend.metrics, atend.requests_processed,
                                   cache_policy, cache_size)
           /\ again # NoReport => again = report

\* the second run of an engine, begun after a run that had counted requests,
\* ended with a hit and a miss sampled, and get_metrics was called once more
C15_Witness ==
    /\ previous.ran
    /\ previous.report.total_requests > 0
    /\ pc = "done"
    /\ metrics.hit_latencies # <<>>
    /\ metrics.miss_latencies # <<>>
    /\ again # NoReport

\* ------------------------------------------------------------------------
\* Properties of process_request (checked under EngineSpec)
\* ------------------------------------------------------------------------
\* the edge server of the last request's client, NoEdge when it has none
LastEdge ==
    IF lastreq.request.client \in DOMAIN client_edge_map
    THEN client_edge_map[lastreq.request.client]
    ELSE NoEdge

\* the last request's edge cache when process_request began, and now
LastCachePre == lastreq.edge_servers[LastEdge].cache
LastCacheNow == edge_servers[LastEdge].cache

PenaltyCase == lastreq.called /\ LastEdge = NoEdge
HitCase ==
    /\ lastreq.called
    /\ LastEdge # NoEdge
    /\ CM_contains(LastCachePre, lastreq.request.content_id)
MissCase ==
    /\ lastreq.called
    /\ LastEdge # NoEdge
    /\ ~CM_contains(LastCachePre, lastreq.request.content_id)

\* C16 (as claimed): the request of a client without edge server returns
\* 1000, adds 1 to total_requests and 1000 to total_latency and changes
\* nothing else of the engine: no edge server (cache, load), no other entry
\* of the metrics; and the run goes on.
C16_PenaltyChangesNothingElse ==
    PenaltyCase =>
        /\ ~lastreq.raised
        /\ lastreq.ret = 1000
        /\ pc # "aborted"
        /\ edge_servers = lastreq.edge_servers
        /\ metrics = [lastreq.metrics EXCEPT !.total_requests = @ + 1,
                                             !.total_latency = @ + 1000]

\* the requests given so far whose client has no edge server
Penalties(reqs) == Len(reqs) - Routable(reqs)

\* C17: cache_hits + cache_misses + (requests that took the penalty path) =
\* total_requests at every point of a run; and in the report of a non-empty
\* run whose clients all have an edge server, hit_ratio + cache_misses /
\* total_requests = 1.
C17_HitsMissesPenaltiesPartition ==
    /\ metrics.cache_hits + metrics.cache_misses + Penalties(given)
           = metrics.total_requests
    /\ (pc = "done" /\ given # <<>> /\ Penalties(given) = 0) =>
           /\ report.total_requests = Len(given)
           /\ report.hit_ratio.den = report.total_requests
           /\ report.hit_ratio.num + report.cache_misses = report.total_requests

\* a run with a hit, a miss and a penalty request has ended
C17_Witness ==
    /\ pc = "done"
    /\ metrics.cache_hits > 0
    /\ metrics.cache_misses > 0
    /\ Penalties(given) > 0

\* C18: a request for content present in its edge's cache returns
\* latency(client, edge), adds 1 to cache_hits and the request's size to
\* bandwidth_saved, appends the latency to the hit samples, leaves the edge
\* cache as the policy's get leaves it, with the same keys, and leaves
\* origin_requests and cache_misses as they were.
C18_HitPath ==
    HitCase =>
        /\ ~lastreq.raised
        /\ lastreq.ret = get_latency(lastreq.request.client, LastEdge)
        /\ metrics.cache_hits = lastreq.metrics.cache_hits + 1
        /\ metrics.bandwidth_saved = lastreq.metrics.bandwidth_saved + lastreq.request.size
        /\ metrics.hit_latencies = Append(lastreq.metrics.hit_latencies, lastreq.ret)
        /\ LastCacheNow = CM_get(LastCachePre, lastreq.request.content_id)
        /\ StoredKeys(LastCacheNow) = StoredKeys(LastCachePre)
        /\ metrics.origin_requests = lastreq.metrics.origin_requests
        /\ metrics.cache_misses = lastreq.metrics.cache_misses
        /\ metrics.miss_latencies = lastreq.metrics.miss_latencies

\* a hit on the least recently used of two entries of an LRU edge cache
C18_Witness ==
    /\ HitCase
    /\ cache_policy = "LRU"
    /\ Len(LastCachePre.cache) = 2
    /\ LastCachePre.cache[1][1] = lastreq.request.content_id
    /\ LastCacheNow.cache[2][1] = lastreq.request.content_id
    /\ metrics.bandwidth_saved = 100

\* C19 (as claimed): a request for content absent from its edge's cache
\* returns 2 * latency(client, edge) + latency(edge, origin), origin being
\* find_origin_server of the request's region; adds 1 to cache_misses and to
\* origin_requests, appends the latency to the miss samples, leaves
\* bandwidth_saved as it was, and with capacity >= 1 leaves the content
\* stored in that edge cache with the request's size as value.
C19_MissPath ==
    MissCase =>
        /\ ~lastreq.raised
        /\ lastreq.ret = 2 * get_latency(lastreq.request.client, LastEdge)
                         + get_latency(LastEdge, find_origin_server(lastreq.request.region))
        /\ metrics.cache_misses = lastreq.metrics.cache_misses + 1
        /\ metrics.origin_requests = lastreq.metrics.origin_requests + 1
        /\ metrics.miss_latencies = Append(lastreq.metrics.miss_latencies, lastreq.ret)
        /\ metrics.bandwidth_saved = lastreq.metrics.bandwidth_saved
        /\ cache_size >= 1 =>
               /\ lastreq.request.content_id \in StoredKeys(LastCacheNow)
               /\ StoredValue(LastCacheNow, lastreq.request.content_id)
                      = lastreq.request.size

\* the requests given so far are the first ones of: A (size 100), A, B (size
\* 50), all of the one client and without region hint
ScenarioRequests == <<"A", "A", "B">>
InScenario ==
    /\ topology # "realistic"
    /\ cache_policy = "LRU"
    /\ cache_size = 1
    /\ pc \in {"running", "done", "aborted"}
    /\ Len(given) <= Len(ScenarioRequests)
    /\ \A i \in 1..Len(given) :
           /\ given[i].client = "client_0"
           /\ given[i].content_id = ScenarioRequests[i]
           /\ given[i].region = NoRegion

\* C20 (as claimed): on a topology of one origin, one edge server (10 from
\* the origin, 5 from the client) and one client, with LRU and capacity 1,
\* the requests A, A, B give: a miss of latency 20 that caches A, a hit of
\* latency 5, a miss of latency 20 that evicts A and caches B; the report has
\* hit_ratio 1/3 and bandwidth_saved 100/250.
C20_EndToEndScenario ==
    InScenario =>
        /\ Len(given) = 1 =>
               /\ lastreq.ret = 20
               /\ metrics.cache_hits = 0 /\ metrics.cache_misses = 1
               /\ StoredKeys(edge_servers["edge_bos"].cache) = {"A"}
        /\ Len(given) = 2 =>
               /\ lastreq.ret = 5
               /\ metrics.cache_hits = 1 /\ metrics.cache_misses = 1
               /\ StoredKeys(edge_servers["edge_bos"].cache) = {"A"}
        /\ Len(given) = 3 =>
               /\ lastreq.ret = 20
               /\ metrics.cache_hits = 1 /\ metrics.cache_misses = 2
               /\ StoredKeys(edge_servers["edge_bos"].cache) = {"B"}
        /\ (Len(given) = 3 /\ pc = "done") =>
               /\ report.hit_ratio.num * 3 = report.hit_ratio.den
               /\ report.bandwidth_saved.num * 250 = 100 * report.bandwidth_saved.den

\* ------------------------------------------------------------------------
\* Properties of the report (checked under SampleSpec and EngineSpec)
\* ------------------------------------------------------------------------
\* the element at index i (from 0) of q sorted ascending: the value with at
\* most i smaller samples and more than i samples not above it
Kth(q, i) ==
    CHOOSE v \in {q[j] : j \in 1..Len(q)} :
        /\ Cardinality({j \in 1..Len(q) : q[j] < v}) <= i
        /\ i < Cardinality({j \in 1..Len(q) : q[j] <= v})

\* C21: for a non-empty run with n samples (hit and miss samples together),
\* the report's median, p95 and p99 latencies are the elements at indices
\* n div 2, 95n div 100 and 99n div 100 of the samples sorted ascending, all
\* three indices below n; for the ten samples 5, 10, 15 and seven times 20
\* the median is 20 and p95 is 20.
C21_PercentilesByIndex ==
    (pc = "done" /\ metrics.total_requests > 0) =>
        LET q == metrics.hit_latencies \o metrics.miss_latencies
            n == Len(q)
        IN  /\ n > 0
            /\ n \div 2 < n /\ (95 * n) \div 100 < n /\ (99 * n) \div 100 < n
            /\ report.median_latency = Kth(q, n \div 2)
            /\ report.p95_latency = Kth(q, (95 * n) \div 100)
            /\ report.p99_latency = Kth(q, (99 * n) \div 100)
            /\ (metrics.hit_latencies = TenHits /\ metrics.miss_latencies = TenMisses) =>
                   /\ report.median_latency = 20
                   /\ report.p95_latency = 20

\* the report of the ten samples has been returned
C21_Witness ==
    /\ pc = "done"
    /\ metrics.hit_latencies = TenHits
    /\ metrics.miss_latencies = TenMisses
    /\ report.median_latency = 20
    /\ report.p95_latency = 20

\* the fields of the report of a run that processed a request
NonEmptyReportFields ==
    DOMAIN get_metrics(metrics_of_samples(<<5>>, <<20>>), <<>>, cache_policy, cache_size)

\* C22: a run over no request ends, and its report has exactly the fields of
\* the report of a non-empty run, every number 0 and the mapping empty.
C22_EmptyRunReport ==
    (pc = "done" /\ given = <<>>) =>
        /\ DOMAIN report = NonEmptyReportFields
        /\ report.policy = cache_policy
        /\ \A f \in {"hit_ratio", "avg_latency", "avg_hit_latency", "avg_miss_latency",
                     "bandwidth_saved", "cache_efficiency"} : report[f].num = 0
        /\ \A f \in {"median_latency", "p95_latency", "p99_latency", "origin_requests",
                     "cache_hits", "cache_misses", "total_requests",
                     "total_bandwidth_saved_kb"} : report[f] = 0
        /\ DOMAIN report.server_loads = {}

\* a run over no request has returned its report, on a HYBRID engine
C22_Witness ==
    /\ pc = "done"
    /\ given = <<>>
    /\ cache_policy = "HYBRID"
    /\ report.total_requests = 0
    /\ Cardinality(DOMAIN report) = 16

\* the requests of reqs routed to edge server e
RECURSIVE RoutedTo(_, _)
RoutedTo(reqs, e) ==
    IF reqs = <<>> THEN 0
    ELSE (IF Head(reqs).client \in DOMAIN client_edge_map
             /\ client_edge_map[Head(reqs).client] = e THEN 1 ELSE 0)
         + RoutedTo(Tail(reqs), e)

\* the requests of reqs for content ct
RECURSIVE RequestsFor(_, _)
RequestsFor(reqs, ct) ==
    IF reqs = <<>> THEN 0
    ELSE (IF Head(reqs).content_id = ct THEN 1 ELSE 0) + RequestsFor(Tail(reqs), ct)

\* C23 (as claimed): the report carries the per-edge load counts and the
\* per-content service counts, as the mappings accumulated in the run: per
\* edge server the number of requests routed to it, per content the number
\* of its requests served as hit or miss.
C23_ReportCarriesBothCounts ==
    (pc = "done" /\ given # <<>>) =>
        /\ "server_loads" \in DOMAIN report
        /\ "content_served" \in DOMAIN report
        /\ report.server_loads = metrics.server_loads
        /\ report.content_served = metrics.content_served
        /\ \A e \in DOMAIN report.server_loads :
               report.server_loads[e] = RoutedTo(given, e)
        /\ \A ct \in DOMAIN report.content_served :
               report.content_served[ct] = RequestsFor(requests_processed, ct)

\* C24 (as claimed): the reported bandwidth_saved is (sizes of the requests
\* served as hits) / (sizes of all requests of the run, those of clients
\* without edge server included), 0 when that total is 0, and between 0 and 1.
C24_BandwidthSavedRatio ==
    pc = "done" =>
        LET total == SumSizes(given)
            ratio == report.bandwidth_saved
        IN  /\ ratio.den > 0
            /\ 0 <= ratio.num /\ ratio.num <= ratio.den
            /\ total = 0 => ratio.num = 0
            /\ total > 0 => ratio.num * total = metrics.bandwidth_saved * ratio.den

\* ------------------------------------------------------------------------
\* Properties of the topology (checked under OracleSpec)
\* ------------------------------------------------------------------------
\* least path weights by relaxation: D maps every node to the least weight
\* found so far of a path from the start node, Far when none was found
Far == Unreachable

RECURSIVE Relax(_, _)
Relax(D, k) ==
    IF k = 0 THEN D
    ELSE Relax([n \in Nodes |->
                   MinOf({D[n]}
                         \cup {D[l[1]] + l[3] : l \in {x \in Links : x[2] = n}}
                         \cup {D[l[2]] + l[3] : l \in {x \in Links : x[1] = n}})],
               k - 1)

LeastPathWeights(a) ==
    Relax([n \in Nodes |-> IF n = a THEN 0 ELSE Far], Cardinality(Nodes))

\* what C25 says get_latency(a, b) is
ClaimedLatency(a, b) ==
    IF \E l \in Links : {l[1], l[2]} = {a, b} /\ a # b
    THEN (CHOOSE l \in Links : {l[1], l[2]} = {a, b})[3]
    ELSE IF a \in Nodes /\ b \in Nodes
    THEN LET w == LeastPathWeights(a)[b] IN IF w < Far THEN w ELSE 100
    ELSE 100

\* C25: every get_latency(a, b) call returns a value (it never fails): the
\* weight of the link a-b when there is one, otherwise the least total weight
\* of a path from a to b, and 100 when there is no path; all calls for a pair
\* return the same value, and so do the calls for the pair in the other order.
C25_LatencyValue ==
    \A p \in DOMAIN returned :
        /\ returned[p] = {ClaimedLatency(p[1], p[2])}
        /\ <<p[2], p[1]>> \in DOMAIN returned => returned[<<p[2], p[1]>>] = returned[p]

\* get_latency was asked for a pair without link, joined by a path, and then
\* for the same pair in the other order, which the memo answered
C25_Witness ==
    /\ topology = "realistic"
    /\ nasked = 2
    /\ asked.fn = "get_latency" /\ asked.node1 = "origin_ny" /\ asked.node2 = "client_0"
    /\ DOMAIN returned = {<<"client_0", "origin_ny">>, <<"origin_ny", "client_0">>}
    /\ returned[<<"client_0", "origin_ny">>] = {8}
    /\ DOMAIN latency_cache = {<<"client_0", "origin_ny">>}

\* C26 (as claimed): for a client node, find_nearest_edge_server returns an
\* edge server whose get_latency from the client is at most that of every
\* other edge server, and returns none only on a topology without edge
\* server.
C26_NearestEdgeIsNearest ==
    asked.fn = "find_nearest_edge_server" =>
        /\ asked.name = NoEdge <=> EdgeNodes = {}
        /\ asked.name # NoEdge =>
               /\ asked.name \in EdgeNodes
               /\ \A e \in EdgeNodes :
                      get_latency(asked.node1, asked.name) <= get_latency(asked.node1, e)

\* C27 (as claimed): find_origin_server returns, for every region hint and
\* for none, one origin node of the topology; codes it does not know, and no
\* hint, give the topology's first origin.
FirstOrigin == CHOOSE o \in Origins : \A p \in Origins : NodeRank(o) <= NodeRank(p)

C27_OriginOfTheTopology ==
    asked.fn = "find_origin_server" =>
        /\ asked.name \in Origins
        /\ asked.region \notin {"US", "NA", "CA", "EU", "GB", "UK"} =>
               asked.name = FirstOrigin

\* ------------------------------------------------------------------------
\* Properties of several engines on one topology
\* ------------------------------------------------------------------------
\* the stored contents of every edge cache of engine e
EdgeContents(e) == [s \in DOMAIN e.edge_servers |-> StoredMap(e.edge_servers[s].cache)]

\* C28: for LRU, LFU, FIFO and HYBRID, two engines of the same topology and
\* capacity given the same request sequence have the same hit/miss outcome
\* and latency for every request and the same contents in every edge cache
C28_SameSequenceSameOutcome ==
    /\ "e1" \in DOMAIN engines
    /\ engines["e1"].cache_policy = engines["e2"].cache_policy
    /\ engines["e1"].cache_policy \in {"LRU", "LFU", "FIFO", "HYBRID"}
    /\ engines["e1"].cache_size = engines["e2"].cache_size
    /\ engines["e1"].given = engines["e2"].given
    => /\ engines["e1"].outcomes = engines["e2"].outcomes
       /\ EdgeContents(engines["e1"]) = EdgeContents(engines["e2"])

\* a HYBRID pair of capacity 2 after three different contents went to one
\* edge (an eviction among two candidates) and a fourth request hit
C28_Witness ==
    /\ "e1" \in DOMAIN engines
    /\ engines["e1"].cache_policy = "HYBRID"
    /\ engines["e2"].cache_policy = "HYBRID"
    /\ engines["e1"].cache_size = 2
    /\ Len(engines["e1"].given) = 4
    /\ engines["e1"].given = engines["e2"].given
    /\ {engines["e1"].given[k].content_id : k \in 1..3} = TwinContents
    /\ \A k \in 1..4 : engines["e1"].given[k].client = "client_0"
    /\ engines["e1"].outcomes[4].kind = "hit"
    /\ engines["e2"].outcomes[4].kind = "hit"

\* two RANDOM engines given the same sequence can end up with different
\* contents
C28_RandomDiffers ==
    /\ "e1" \in DOMAIN engines
    /\ engines["e1"].cache_policy = "RANDOM"
    /\ engines["e1"].given = engines["e2"].given
    /\ EdgeContents(engines["e1"]) # EdgeContents(engines["e2"])

\* C29: two engines on one topology share no cache and no metrics: whatever
\* the interleaving of their process_request calls, each engine's outcomes,
\* caches, metrics and report are those of the same engine given the same
\* requests alone (with the same random draws)
C29_EnginesIndependent ==
    \A i \in DOMAIN alone :
        /\ engines[i] = alone[i].engine
        /\ engine_report(engines[i]) = engine_report(alone[i].engine)

\* both engines have missed on the same request, so that one found in the
\* memo what the other had looked up, and the memo also holds lookups that
\* the first engine never made
C29_Witness ==
    /\ "e1" \in DOMAIN alone
    /\ engines["e1"].given # <<>>
    /\ Len(engines["e2"].given) = 2
    /\ engines["e2"].given[1] = engines["e1"].given[1]
    /\ engines["e1"].outcomes[1].kind = "miss"
    /\ engines["e2"].outcomes[1].kind = "miss"
    /\ engines["e2"].given[2].client # engines["e2"].given[1].client
    /\ engines["e1"].cache_policy # engines["e2"].cache_policy
    /\ DOMAIN alone["e1"].latency_cache # DOMAIN latency_cache

\* ------------------------------------------------------------------------
\* Properties of the policy name
\* ------------------------------------------------------------------------
\* two characters that are the same letter in either case, or the same
\* character
SameLetter(a, b) ==
    \/ a = b
    \/ \E k \in DOMAIN LowerCase : {a, b} = {LowerCase[k], UpperCase[k]}

\* the manager was constructed with the name of policy pol in some case
Named(pol) ==
    /\ Len(policy_name) = Len(Spelled(pol))
    /\ \A k \in 1..Len(policy_name) : SameLetter(policy_name[k], Spelled(pol)[k])

ClassOf(pol) ==
    CASE pol = "LRU"    -> "LRUCache"
      [] pol = "LFU"    -> "LFUCache"
      [] pol = "FIFO"   -> "FIFOCache"
      [] pol = "RANDOM" -> "RandomCache"
      [] pol = "HYBRID" -> "HybridCache"

\* the last call did what the same call does on an LRUCache
LastAsLRU ==
    /\ last.op = "get" => /\ cache = LRU_get(last.pre, last.key)
                          /\ last.ret = LRU_get_ret(last.pre, last.key)
    /\ last.op = "put" => /\ last.raised = LRU_put_raises(last.pre, last.key)
                          /\ ~last.raised =>
                                 cache = LRU_put(last.pre, last.key, last.value)
    /\ last.op = "contains" => /\ last.found = LRU_contains(last.pre, last.key)
                               /\ cache = last.pre
    /\ last.op = "clear" => cache = LRUCache(capacity)
    /\ last.op = "none" => cache = LRUCache(capacity)

\* C30: the manager's policy is the one its name spells in any case, and a
\* manager constructed with a name of no policy is an LRU cache in every
\* call
C30_NameSelectsPolicy ==
    /\ \A pol \in Policies : Named(pol) => cache.class = ClassOf(pol)
    /\ (\A pol \in Policies : ~Named(pol)) => LastAsLRU

\* a manager named in mixed case evicted by its policy's rule, and one with a
\* name of no policy evicted the least recently used key
C30_Witness ==
    /\ policy_name \in {<<"L", "f", "u">>, <<"a", "r", "c">>}
    /\ last.op = "put" /\ ~last.raised
    /\ last.key \notin StoredKeys(last.pre)
    /\ Cardinality(StoredKeys(last.pre)) = capacity
    /\ capacity = 2

\* ------------------------------------------------------------------------
\* Properties of the LFU bookkeeping (checked under Spec)
\* ------------------------------------------------------------------------
\* the keys of bucket f of LFU object c (none when the bucket does not exist)
Bucket(c, f) == IF f \in DOMAIN c.freq THEN KS_keys(c.freq[f]) ELSE {}

\* the last call promoted a stored key that was alone in the bucket of the
\* minimum
PromotionEmptiedMin ==
    /\ last.op \in {"get", "put"} /\ ~last.raised
    /\ last.key \in StoredKeys(last.pre)
    /\ Bucket(last.pre, last.pre.min_freq) = {last.key}

\* the last call inserted a key that was not stored
InsertedNewKey ==
    /\ last.op = "put" /\ ~last.raised
    /\ last.key \notin StoredKeys(last.pre)
    /\ last.key \in StoredKeys(cache)

\* C31: with a stored key, min_freq is the smallest frequency of the stored
\* keys and its bucket is not empty; min_freq grows only by one, and only in
\* a promotion that emptied the bucket of the minimum; the insertion of a
\* new key sets it to 1
C31_MinFreqIsTheMinimum ==
    cache.class = "LFUCache" =>
        /\ StoredKeys(cache) # {} =>
               /\ \E k \in StoredKeys(cache) : StoredFreq(cache, k) = cache.min_freq
               /\ \A k \in StoredKeys(cache) : StoredFreq(cache, k) >= cache.min_freq
               /\ Bucket(cache, cache.min_freq) # {}
        /\ (last.op # "none" /\ cache.min_freq > last.pre.min_freq) =>
               \/ PromotionEmptiedMin /\ cache.min_freq = last.pre.min_freq + 1
               \/ InsertedNewKey
        /\ InsertedNewKey => cache.min_freq = 1
        /\ (PromotionEmptiedMin /\ last.op # "clear") =>
               cache.min_freq = last.pre.min_freq + 1

\* a get promoted the only key of the minimum's bucket while another key was
\* stored with a higher frequency
C31_Witness ==
    /\ cache.class = "LFUCache"
    /\ last.op = "get"
    /\ PromotionEmptiedMin
    /\ Cardinality(StoredKeys(cache)) = 2
    /\ cache.min_freq = 2

\* C36: every stored key is in exactly one frequency bucket, the one of the
\* frequency the key table records for it, once; and no bucket holds a key
\* that is not stored
C36_BucketsMatchKeyTable ==
    cache.class = "LFUCache" =>
        /\ \A k \in StoredKeys(cache) :
               \A f \in DOMAIN cache.freq :
                   k \in Bucket(cache, f) <=> f = StoredFreq(cache, k)
        /\ \A k \in StoredKeys(cache) : StoredFreq(cache, k) \in DOMAIN cache.freq
        /\ \A f \in DOMAIN cache.freq :
               /\ Bucket(cache, f) \subseteq StoredKeys(cache)
               /\ Cardinality(Bucket(cache, f)) = Len(cache.freq[f])

\* a put evicted a key of a full LFU cache whose keys were in two buckets
C36_Witness ==
    /\ cache.class = "LFUCache"
    /\ last.op = "put" /\ ~last.raised
    /\ capacity = 2
    /\ Cardinality(StoredKeys(last.pre)) = 2
    /\ last.key \notin StoredKeys(last.pre)
    /\ \E k \in StoredKeys(last.pre) : StoredFreq(last.pre, k) > 1
    /\ StoredKeys(last.pre) \ StoredKeys(cache) # {}

\* ------------------------------------------------------------------------
\* Properties of the lock under fair scheduling (checked under FairSpec)
\* ------------------------------------------------------------------------
\* the lock is held by a thread exactly while that thread is inside the
\* with-block of a call
LockHeldByRunningCall ==
    /\ lock # Free => lock \in Threads /\ thr[lock].pc \in {"in", "mid", "out"}
    /\ \A t \in Threads : thr[t].pc \in {"in", "mid", "out"} => lock = t

C33_HitStillPresentAtGet ==
    /\ \A t \in DOMAIN thr :
           (thr[t].pc = "done" /\ thr[t].hit) => thr[t].found /\ ~thr[t].policy_miss
    /\ \A e \in DOMAIN edge_servers : CM_size(edge_servers[e].cache) <= cache_size

\* ------------------------------------------------------------------------
\* Frame of process_request (checked under EngineSpec)
\* ------------------------------------------------------------------------
\* C34: a process_request call leaves the cache of every edge server but the
\* precomputed edge of the request's client as it was (contents, counters,
\* policy metadata), and the client-to-edge mapping is the one computed at
\* construction
C34_OnlyTheClientsEdgeChanges ==
    /\ lastreq.called =>
           /\ DOMAIN edge_servers = DOMAIN lastreq.edge_servers
           /\ \A e \in DOMAIN edge_servers :
                  e # LastEdge => edge_servers[e].cache = lastreq.edge_servers[e].cache
    /\ client_edge_map = precompute_client_edge_mapping

\* a miss of a client of the second edge server stored its content there
\* while the first edge server's cache held a content
C34_Witness ==
    /\ MissCase
    /\ LastEdge = "edge_tor"
    /\ LastCacheNow # LastCachePre
    /\ StoredKeys(edge_servers["edge_bos"].cache) # {}

\* ------------------------------------------------------------------------
\* The latency sample lists (checked under EngineSpec)
\* ------------------------------------------------------------------------
\* C35 (as claimed): the hit-sample list has as many samples as cache_hits
\* counts and the miss-sample list as many as cache_misses counts
C35_SamplesMatchCounters ==
    /\ Len(metrics.hit_latencies) = metrics.cache_hits
    /\ Len(metrics.miss_latencies) = metrics.cache_misses

\* ------------------------------------------------------------------------
\* Properties of the HYBRID bookkeeping (checked under Spec)
\* ------------------------------------------------------------------------
\* the last call was a put of a new key into a full HYBRID cache
HybridPutFull ==
    /\ last.op = "put"
    /\ last.pre.class = "HybridCache"
    /\ last.key \notin DOMAIN last.pre.store
    /\ capacity > 0
    /\ Cardinality(DOMAIN last.pre.store) >= capacity

\* C37: the value store, the frequency table and the recency order hold the
\* same keys, each once, and every stored key has frequency >= 1; so the put
\* of a new key into a full cache finds a victim (it does not raise) and the
\* victim is gone from all three
C37_HybridStructuresAgree ==
    cache.class = "HybridCache" =>
        /\ DOMAIN cache.store = DOMAIN cache.freq
        /\ DOMAIN cache.store = KS_keys(cache.recency)
        /\ Len(cache.recency) = Cardinality(DOMAIN cache.store)
        /\ \A k \in DOMAIN cache.store : cache.freq[k] >= 1
        /\ HybridPutFull =>
               /\ ~last.raised
               /\ \E victim \in DOMAIN last.pre.store :
                      /\ DOMAIN cache.store = (DOMAIN last.pre.store \ {victim}) \cup {last.key}
                      /\ victim \notin DOMAIN cache.freq
                      /\ victim \notin KS_keys(cache.recency)

\* a put evicted from a full HYBRID cache of two keys with different
\* frequencies
C37_Witness ==
    /\ cache.class = "HybridCache"
    /\ HybridPutFull
    /\ capacity = 2
    /\ \E k1, k2 \in DOMAIN last.pre.store : last.pre.freq[k1] < last.pre.freq[k2]

\* ------------------------------------------------------------------------
\* The engine's hit counter and the policies' counters (checked under
\* EngineSpec, whose single run starts with empty caches)
\* ------------------------------------------------------------------------
\* the hits counted by the policy objects of the edge servers in es
RECURSIVE PolicyHits(_, _)
PolicyHits(es, S) ==
    IF S = {} THEN 0
    ELSE LET e == CHOOSE x \in S : TRUE
         IN  es[e].cache.hits + PolicyHits(es, S \ {e})

\* C38: in a run that started with empty caches, a request the engine counts
\* as a hit adds one hit to the policy of its edge and no other call adds
\* any, so every policy's hits are the engine's hits at that edge; no policy
\* counts a miss; and the policies' hits add up to cache_hits
C38_PolicyCountersAgree ==
    /\ \A e \in DOMAIN edge_servers : edge_servers[e].cache.misses = 0
    /\ PolicyHits(edge_servers, DOMAIN edge_servers) = metrics.cache_hits
    /\ lastreq.called =>
           /\ metrics.cache_hits - lastreq.metrics.cache_hits \in {0, 1}
           /\ \A e \in DOMAIN edge_servers :
                  edge_servers[e].cache.hits - lastreq.edge_servers[e].cache.hits =
                      IF e = LastEdge
                      THEN metrics.cache_hits - lastreq.metrics.cache_hits
                      ELSE 0

\* a hit at one edge server after a miss at the other
C38_Witness ==
    /\ "edge_tor" \in DOMAIN edge_servers
    /\ edge_servers["edge_bos"].cache.hits = 1
    /\ edge_servers["edge_tor"].cache.hits = 0
    /\ StoredKeys(edge_servers["edge_tor"].cache) # {}
    /\ metrics.cache_hits = 1
    /\ HitCase

====
